---- MODULE Spec2Model ----
(***************************************************************************)
(* A model of the quiz pipeline of Memora:                                 *)
(*   - backend/controllers/quizController.js: uploadFiles (text            *)
(*     extraction fallback chain), generateQuiz / generateQuizWithAI       *)
(*     (asynchronous generation and the status flag), submitQuizAttempt    *)
(*     (scoring), the attempt and progress handlers;                       *)
(*   - frontend/app/quiz/[quizId]/page.tsx: the quiz-taking session        *)
(*     (countdown, autosave, restore, submit).                             *)
(* Each subsystem has its own specification over the shared variables:     *)
(*   SpecUpload, SpecGen, SpecScore, SpecServer, SpecSession, SpecAutosave *)
(***************************************************************************)
EXTENDS Integers, Sequences, FiniteSets, TLC

VARIABLES
    \* ---- uploadFiles (one request in progress) ----
    upPc,            \* position in uploadFiles
    upUser,          \* req.user.id
    upFiles,         \* req.files: sequence of mimetypes
    upIdx,           \* index of the file the for-loop is at
    extractedText,   \* local `extractedText`
    processingError, \* local `processingError`
    pdfError,        \* `pdfError.message` caught by the outer PDF catch
    upLog,           \* history: the PDF strategies run for the current file
    upRes,           \* HTTP status answered (0: none yet)
    uploadedFiles,   \* the UploadedFile collection
    \* ---- generateQuiz ----
    quizzes,         \* the Quiz collection (what is stored)
    genTask,         \* per quiz: the in-memory document and promise chain
    genRes,          \* last answer of generateQuiz / getQuizStatus / getQuiz
    genReq,          \* history: the last request generateQuiz answered
    \* ---- attempts ----
    attempts,        \* the QuizAttempt collection
    srvRes,          \* last answer of an attempt handler
    srvReq,          \* history: the request that answer was given to
    \* ---- quiz-taking session (TakeQuizPage) ----
    sess,            \* React state of the mounted page
    timerCap,        \* closure captured by the countdown interval
    pending,         \* setTimeout(saveQuizProgress, 100) callbacks not yet run
    saveIn,          \* seconds until the autosave interval fires (0: no interval)
    progress,        \* the QuizProgress collection (one user, one quiz)
    reqLog,          \* history: submit requests sent by the page
    saveLog,         \* history: the last save-progress request sent
    sinceSave,       \* history: seconds since a progress save was last issued
    ticks,           \* history: seconds elapsed in the session
    chatSessions,    \* the ChatSession collection, in creation order
    chatMessages,    \* the ChatMessage collection, in creation order
    aiCalls,         \* history: number of generateAIResponse calls started
    chatReq,         \* history: the last tutor request handled
    chatRes          \* the response to the last tutor request

uploadVars  == <<upPc, upUser, upFiles, upIdx, extractedText, processingError,
                 pdfError, upLog, upRes>>
genVars     == <<quizzes, genTask, genRes, genReq>>
attemptVars == <<attempts, srvRes, srvReq>>
sessVars    == <<sess, timerCap, pending, saveIn, progress, reqLog, saveLog,
                 sinceSave, ticks>>
chatVars    == <<chatSessions, chatMessages, aiCalls, chatReq, chatRes>>
vars == <<uploadVars, uploadedFiles, genVars, attemptVars, sessVars, chatVars>>
\* what the handlers of one subsystem leave alone
uploadFrame  == <<genVars, attemptVars, sessVars, chatVars>>
genFrame     == <<uploadVars, uploadedFiles, attemptVars, sessVars, chatVars>>
serverFrame  == <<uploadVars, uploadedFiles, genVars, sessVars, chatVars>>
chatFrame    == <<uploadVars, uploadedFiles, genVars, attemptVars, sessVars>>

----------------------------------------------------------------------------
(* Common values *)

Null == "<null>"                 \* JavaScript null / undefined for a string field
NoNum == -1                      \* JavaScript null for a number field
Users == {"u1", "u2"}            \* req.user.id of the authenticated requester

Last(s) == s[Len(s)]
Front(s) == SubSeq(s, 1, Len(s) - 1)

RECURSIVE SeqsUpTo(_, _)
SeqsUpTo(S, n) ==                \* the sequences over S of length <= n
    IF n = 0 THEN {<<>>}
    ELSE LET shorter == SeqsUpTo(S, n - 1)
         IN  shorter \cup {Append(s, x) : s \in {t \in shorter : Len(t) = n - 1}, x \in S}

----------------------------------------------------------------------------
(* uploadFiles: quizController.js 358-494 *)

MaxFiles  == 2                   \* files in one upload request
MaxStored == 2                   \* UploadedFile records kept by the model

TXT  == "text/plain"
PDF  == "application/pdf"
DOCX == "application/vnd.openxmlformats-officedocument.wordprocessingml.document"
PPTX == "application/vnd.openxmlformats-officedocument.presentationml.presentation"
\* routes/quiz.js fileFilter: multer lets only these four types through
allowedTypes == {PDF, DOCX, PPTX, TXT}

Texts == {"ta", "tb"}            \* extracted texts that are not blank
\* messages extractTextFromPDF rethrows (quizController.js 40-48)
PdfParseErrors == {"Invalid or corrupted PDF file",
                   "PDF contains no extractable text"}
Pdf2JsonErrors == {"Failed to parse PDF"}
OcrErrors      == {"OCR extraction failed"}
IoErrors       == {"ENOENT"}

\* An extraction strategy resolves with a non-blank text or rejects with an error:
\* each of the three PDF extractors throws on a blank result (28-31, 72-73, 141-143)
Outcomes(errors) ==
    [ok : {TRUE}, text : Texts, error : {Null}] \cup
    [ok : {FALSE}, text : {Null}, error : errors]

\* processingError: a message, and the error message interpolated into it
NoError == [msg |-> Null, cause |-> Null]          \* processingError = null
ErrorOf(m) == [msg |-> m, cause |-> Null]          \* processingError = e.message

\* `All PDF extraction methods failed. Original error: ${pdfError.message}` (409)
AllFailedMessage_OcrError(pdfErr, altErr, ocrErr) ==
    [msg |-> "All PDF extraction methods failed. Original error: ", cause |-> ocrErr]
AllFailedMessage(pdfErr, altErr, ocrErr) ==
    [msg |-> "All PDF extraction methods failed. Original error: ", cause |-> pdfErr]

\* `extractedText || null` and `!!extractedText` (453-454)
OrNull(text) == IF text = "" \/ text = Null THEN Null ELSE text
Truthy(text) == ~(text = "" \/ text = Null)

\* fileData (445-456); is_deleted is the schema default
FileData_Processed(user, mime, text, err) ==
    [user_id |-> user, mime_type |-> mime, extracted_text |-> OrNull(text),
     is_processed |-> TRUE, processing_error |-> err, is_deleted |-> FALSE]
FileData(user, mime, text, err) ==
    [user_id |-> user, mime_type |-> mime, extracted_text |-> OrNull(text),
     is_processed |-> Truthy(text), processing_error |-> err, is_deleted |-> FALSE]

InitUpload ==
    /\ upPc = "idle" /\ upUser = "u1" /\ upFiles = <<>> /\ upIdx = 0
    /\ extractedText = "" /\ processingError = NoError /\ pdfError = Null
    /\ upLog = <<>> /\ upRes = 0

CurMime == upFiles[upIdx]

\* lines 358-381: the request arrives; no files answers 400
UploadRequest ==
    /\ upPc \in {"idle", "done"}
    /\ \E u \in Users, files \in SeqsUpTo(allowedTypes, MaxFiles) :
          /\ Len(uploadedFiles) + Len(files) <= MaxStored
          /\ upUser' = u /\ upFiles' = files
          /\ IF Len(files) = 0
             THEN upPc' = "done" /\ upRes' = 400 /\ upIdx' = 0
             ELSE upPc' = "extract" /\ upRes' = 0 /\ upIdx' = 1
    /\ extractedText' = "" /\ processingError' = NoError /\ pdfError' = Null
    /\ upLog' = <<>>
    /\ UNCHANGED uploadedFiles
    /\ UNCHANGED uploadFrame

\* lines 384-387 and the outer catch 435-438: fs.readFile of a text file
ExtractTxt ==
    /\ upPc = "extract" /\ CurMime = TXT
    /\ \/ \E t \in Texts \cup {""} :
            extractedText' = t /\ processingError' = NoError
       \/ \E e \in IoErrors :
            extractedText' = extractedText /\ processingError' = ErrorOf(e)
    /\ upPc' = "save"
    /\ UNCHANGED <<upUser, upFiles, upIdx, pdfError, upLog, upRes, uploadedFiles>>
    /\ UNCHANGED uploadFrame

\* lines 390-396: first strategy, pdf-parse
ExtractPdfParse ==
    /\ upPc = "extract" /\ CurMime = PDF
    /\ \E r \in Outcomes(PdfParseErrors) :
          /\ upLog' = Append(upLog, [strategy |-> "pdf-parse", ok |-> r.ok,
                                     text |-> r.text, error |-> r.error])
          /\ IF r.ok
             THEN extractedText' = r.text /\ pdfError' = pdfError /\ upPc' = "save"
             ELSE extractedText' = extractedText /\ pdfError' = r.error
                  /\ upPc' = "pdf2json"
    /\ UNCHANGED <<upUser, upFiles, upIdx, processingError, upRes, uploadedFiles>>
    /\ UNCHANGED uploadFrame

\* lines 397-402: second strategy, pdf2json, inside catch (pdfError)
ExtractPdf2Json ==
    /\ upPc = "pdf2json"
    /\ \E r \in Outcomes(Pdf2JsonErrors) :
          /\ upLog' = Append(upLog, [strategy |-> "pdf2json", ok |-> r.ok,
                                     text |-> r.text, error |-> r.error])
          /\ IF r.ok
             THEN extractedText' = r.text /\ upPc' = "save"
             ELSE extractedText' = extractedText /\ upPc' = "ocr"
    /\ UNCHANGED <<upUser, upFiles, upIdx, processingError, pdfError, upRes,
                   uploadedFiles>>
    /\ UNCHANGED uploadFrame

\* lines 404-411: last strategy, OCR, inside catch (altError)
ExtractOcr ==
    /\ upPc = "ocr"
    /\ \E r \in Outcomes(OcrErrors) :
          /\ upLog' = Append(upLog, [strategy |-> "ocr", ok |-> r.ok,
                                     text |-> r.text, error |-> r.error])
          /\ IF r.ok
             THEN extractedText' = r.text /\ processingError' = processingError
             ELSE /\ processingError' =
                        AllFailedMessage(pdfError, upLog[2].error, r.error)
                  /\ extractedText' = Null
    /\ upPc' = "save"
    /\ UNCHANGED <<upUser, upFiles, upIdx, pdfError, upRes, uploadedFiles>>
    /\ UNCHANGED uploadFrame

\* lines 414-427: mammoth; a failure is caught and reported, the text stays ''
ExtractDocx ==
    /\ upPc = "extract" /\ CurMime = DOCX
    /\ \/ \E t \in Texts \cup {""} :
            extractedText' = t /\ processingError' = NoError
       \/ \E e \in IoErrors :
            extractedText' = extractedText /\ processingError' = ErrorOf(e)
    /\ upPc' = "save"
    /\ UNCHANGED <<upUser, upFiles, upIdx, pdfError, upLog, upRes, uploadedFiles>>
    /\ UNCHANGED uploadFrame

\* lines 428-430
ExtractPptx ==
    /\ upPc = "extract" /\ CurMime = PPTX
    /\ processingError' = ErrorOf("PPTX file type not yet supported")
    /\ upPc' = "save"
    /\ UNCHANGED <<upUser, upFiles, upIdx, extractedText, pdfError, upLog, upRes,
                   uploadedFiles>>
    /\ UNCHANGED uploadFrame

\* lines 444-473 and 483-492: UploadedFile.create; a database error is rethrown
\* and answers 500, the records created before it stay
SaveFile ==
    /\ upPc = "save"
    /\ \/ /\ uploadedFiles' = Append(uploadedFiles,
                 FileData(upUser, CurMime, extractedText, processingError))
          /\ upPc' = "stored" /\ upRes' = upRes
       \/ /\ uploadedFiles' = uploadedFiles
          /\ upPc' = "done" /\ upRes' = 500
    /\ UNCHANGED <<upUser, upFiles, upIdx, extractedText, processingError, pdfError,
                   upLog>>
    /\ UNCHANGED uploadFrame

\* lines 374-381 (next iteration) and 476-482 (the loop ends: 200)
NextFile ==
    /\ upPc = "stored"
    /\ IF upIdx < Len(upFiles)
       THEN /\ upIdx' = upIdx + 1 /\ upPc' = "extract" /\ upRes' = upRes
            /\ extractedText' = "" /\ processingError' = NoError
            /\ pdfError' = Null /\ upLog' = <<>>
       ELSE /\ upPc' = "done" /\ upRes' = 200
            /\ UNCHANGED <<upIdx, extractedText, processingError, pdfError, upLog>>
    /\ UNCHANGED <<upUser, upFiles, uploadedFiles>>
    /\ UNCHANGED uploadFrame

----------------------------------------------------------------------------
(* generateQuizWithAI: quizController.js 153-355 *)

MaxRaw == 2                      \* questions in one AI reply

MC == "multiple-choice"
FB == "fill-blank"
QuestionTypeEnum == {MC, FB}     \* models/Quiz.js 12, 47

\* A text is a sequence of characters, so that trim() and toLowerCase() can be
\* computed on it. A JSON value: its JavaScript type and its text when cast to
\* String
Str(v) == [t |-> "str", v |-> v]
Num(v) == [t |-> "num", v |-> v]
Obj    == [t |-> "obj", v |-> <<"{", "}">>]
Undef  == [t |-> "undef", v |-> <<>>]

\* JavaScript truthiness: '' and 0 and undefined are falsy, an object is truthy
TruthyValue(x) ==
    CASE x.t = "str"   -> x.v # <<>>
      [] x.t = "num"   -> x.v # <<"0">>
      [] x.t = "obj"   -> TRUE
      [] x.t = "undef" -> FALSE

\* an options array of n strings
Opts(n) == SubSeq(<< <<"a">>, <<"b">>, <<"c">>, <<"d">> >>, 1, n)

\* the question objects an AI reply is made of; question_type is its string, ""
\* when the field is missing
Q_mc       == [question_text |-> Str(<<"Q">>), question_type |-> MC,
               isArray |-> TRUE, options |-> Opts(4), correct_answer |-> Str(<<"a">>)]
Q_fb       == [question_text |-> Str(<<"Q">>), question_type |-> FB,
               isArray |-> TRUE, options |-> Opts(0), correct_answer |-> Str(<<"A", " ">>)]
Q_oneOpt   == [Q_mc EXCEPT !.options = Opts(1)]
Q_noOpts   == [Q_mc EXCEPT !.isArray = FALSE, !.options = Opts(0)]
Q_noText   == [Q_fb EXCEPT !.question_text = Str(<<>>)]
Q_numText  == [Q_fb EXCEPT !.question_text = Num(<<"7">>)]
Q_badType  == [Q_fb EXCEPT !.question_type = "true-false"]
Q_noAnswer == [Q_mc EXCEPT !.correct_answer = Undef]
Q_objAns   == [Q_mc EXCEPT !.correct_answer = Obj]  \* passes the filter, fails the schema cast
RawQuestions == {Q_mc, Q_fb, Q_oneOpt, Q_noOpts, Q_noText, Q_numText, Q_badType,
                 Q_noAnswer, Q_objAns}

\* what the fetch and the parse can give (259-309): an error, or a JSON array
AiErrors == {"Gemini API error", "AI response does not contain a JSON array"}
AiReplies == [error : AiErrors, questions : {<<>>}] \cup
             [error : {Null}, questions : SeqsUpTo(RawQuestions, MaxRaw)]

\* a number as JavaScript has it after parseInt: NaN or an integer
NaN == [nan |-> TRUE, val |-> 0]
Int32(n) == [nan |-> FALSE, val |-> n]
\* a request value given to parseInt: numeric (10, "10") or not (undefined, "custom")
Numeric(n) == [t |-> "numeric", n |-> n]
NonNumeric == [t |-> "other", n |-> 0]
\* parseInt(settings.numQuestions) (174): a missing or non-numeric value gives NaN
ParseInt(x) == IF x.t = "numeric" THEN Int32(x.n) ELSE NaN

\* lines 314-325: the filter predicate
IsValidQuestion(q, quizTypes) ==
    /\ TruthyValue(q.question_text) /\ q.question_text.t = "str"
    /\ q.question_type # "" /\ q.question_type \in quizTypes
    /\ TruthyValue(q.correct_answer)
    /\ (q.question_type # MC \/ (q.isArray /\ Len(q.options) >= 2))

RECURSIVE FilterValid(_, _)
FilterValid(qs, quizTypes) ==
    IF qs = <<>> THEN <<>>
    ELSE IF IsValidQuestion(Head(qs), quizTypes)
         THEN <<Head(qs)>> \o FilterValid(Tail(qs), quizTypes)
         ELSE FilterValid(Tail(qs), quizTypes)

\* validQuestions.length < totalQuestions * 0.5 (334): false when totalQuestions is NaN
TooFew(n, total) == ~total.nan /\ 2 * n < total.val

\* Array.prototype.slice(0, end) (347): NaN counts as 0, a negative end counts
\* from the back, an end beyond the length is the length
SliceEnd(len, end) ==
    IF end.nan THEN 0
    ELSE IF end.val < 0 THEN (IF len + end.val > 0 THEN len + end.val ELSE 0)
    ELSE IF end.val > len THEN len ELSE end.val
Slice0(s, end) == SubSeq(s, 1, SliceEnd(Len(s), end))

\* lines 153-355: the promise resolves with questions or rejects with a message
GenerateQuizWithAI(reply, settings) ==
    LET totalQuestions == ParseInt(settings.numQuestions)
        validQuestions == FilterValid(reply.questions, settings.quiz_types)
        Reject(m) == [ok |-> FALSE, questions |-> <<>>, error |-> m]
    IN  IF reply.error # Null THEN Reject(reply.error)
        ELSE IF Len(reply.questions) = 0
             THEN Reject("Generated questions array is empty")
        ELSE IF Len(validQuestions) = 0
             THEN Reject("No valid questions found in AI response")
        ELSE IF TooFew(Len(validQuestions), totalQuestions)
             THEN Reject("Only generated too few valid questions")
        ELSE [ok |-> TRUE, questions |-> Slice0(validQuestions, totalQuestions),
              error |-> Null]

----------------------------------------------------------------------------
(* generateQuiz and the promise chain: quizController.js 497-608;
   the status poll of the page: page.tsx 990-1005 *)

\* the request bodies tried: fileIds and quizTypes (each possibly missing),
\* numQuestions, timeLimit
NumQuestionsInputs == {NonNumeric, Numeric(-1), Numeric(0), Numeric(1), Numeric(2),
                       Numeric(3)}
GoodBody == [hasFileIds |-> TRUE, fileIds |-> {1}, hasQuizTypes |-> TRUE,
             quizTypes |-> {MC}, numQuestions |-> Numeric(1),
             timeLimit |-> NonNumeric]
GenBodies ==
    \* requests that differ in what they ask for
    {[GoodBody EXCEPT !.quizTypes = t, !.numQuestions = n] :
        t \in {{MC}, {FB}, {MC, FB}}, n \in NumQuestionsInputs}
    \cup {[GoodBody EXCEPT !.fileIds = {1, 2}], [GoodBody EXCEPT !.timeLimit = Numeric(1)]}
    \cup
    \* requests that miss something or ask for what is not there
    {[GoodBody EXCEPT !.hasFileIds = FALSE], [GoodBody EXCEPT !.hasQuizTypes = FALSE],
     [GoodBody EXCEPT !.quizTypes = {}], [GoodBody EXCEPT !.quizTypes = {"essay"}]}
    \cup {[GoodBody EXCEPT !.fileIds = f] : f \in {{}, {2}, {3}, {4}}}

\* the files generateQuiz reads: two of u1 (one whose extraction failed), one of u2
\* whose extraction failed
GenFiles == << FileData("u1", TXT, "ta", NoError),
               FileData("u1", PDF, Null,
                        AllFailedMessage("Invalid or corrupted PDF file", Null, Null)),
               FileData("u2", PPTX, "", ErrorOf("PPTX file type not yet supported")) >>

\* UploadedFile.find({_id: {$in: fileIds}, user_id, is_deleted: false}) (516-520)
FindFiles(u, ids) ==
    {i \in ids : /\ i \in 1..Len(uploadedFiles)
                 /\ uploadedFiles[i].user_id = u
                 /\ ~uploadedFiles[i].is_deleted}

\* files.map(f => f.extracted_text).filter(Boolean) (528)
ExtractedTexts_All(files) == files
ExtractedTexts(files) == {i \in files : Truthy(uploadedFiles[i].extracted_text)}

\* timeLimit === 'none' ? null : parseInt(timeLimit) (560)
TimeLimitOf(x) == IF x.t = "numeric" THEN x.n ELSE NoNum

\* Quiz schema validation of a new record (models/Quiz.js 41-58)
QuizTypeValid(types) == types # {} /\ types \subseteq QuestionTypeEnum

\* Quiz.create({... status: 'generating'}) (555-567); title and source_files are
\* written once here and read by no modelled handler: they are left out
NewQuiz(u, body) ==
    [user_id |-> u, quiz_type |-> body.quizTypes,
     time_limit |-> TimeLimitOf(body.timeLimit),
     questions |-> <<>>, status |-> "generating", generation_error |-> Null,
     is_deleted |-> FALSE]

\* the closure of the promise chain (572-591): settings, the in-memory document,
\* the value or error the chain carries, and the page polling the status
NewTask(body) ==
    [pc |-> "ai",
     settings |-> [quiz_types |-> body.quizTypes, numQuestions |-> body.numQuestions],
     doc |-> [questions |-> <<>>, status |-> "generating", generation_error |-> Null],
     value |-> <<>>, error |-> Null, poll |-> "polling"]

\* an answer: the status, the id of the record it carries (0: none) and, from a
\* handler that lists attempts, the ids of the attempts listed
Response(op, u, code, ref) ==
    [op |-> op, user |-> u, code |-> code, ref |-> ref, list |-> {}]
NoResponse == Response("none", "u1", 0, 0)
\* a request: the handler, req.user.id, the id in the path, and whether the
\* body passes the handler's validation
Request(op, u, id, bodyOk) == [op |-> op, user |-> u, id |-> id, bodyOk |-> bodyOk]
NoRequest == Request("none", "u1", 0, TRUE)
\* a request of generateQuiz: req.user.id and req.body (499-500)
GenRequest(u, body) == [op |-> "generateQuiz", user |-> u, body |-> body]
NoGenRequest == [GenRequest("u1", GoodBody) EXCEPT !.op = "none"]

InitGen ==
    /\ quizzes = <<>> /\ genTask = <<>> /\ genRes = NoResponse /\ genReq = NoGenRequest

\* lines 497-608. The promise chains of two quizzes share no state (each closure
\* holds its own document), so the model follows one created quiz: a request that
\* would create a second record is not taken.
GenerateQuiz ==
    \E u \in Users, body \in GenBodies, dbOk \in BOOLEAN :
       LET files == FindFiles(u, body.fileIds)
           Answer(code) ==
               /\ genRes' = Response("generateQuiz", u, code, 0)
               /\ genReq' = GenRequest(u, body)
               /\ UNCHANGED <<quizzes, genTask, genFrame>>
       IN  IF ~body.hasFileIds \/ body.fileIds = {} THEN Answer(400)
           ELSE IF ~body.hasQuizTypes \/ body.quizTypes = {} THEN Answer(400)
           ELSE IF files = {} THEN Answer(404)
           ELSE IF ExtractedTexts(files) = {} THEN Answer(400)
           ELSE IF ~QuizTypeValid(body.quizTypes) \/ ~dbOk THEN Answer(500)
           ELSE /\ quizzes = <<>>
                /\ quizzes' = Append(quizzes, NewQuiz(u, body))
                /\ genTask' = Append(genTask, NewTask(body))
                /\ genRes' = Response("generateQuiz", u, 202, Len(quizzes) + 1)
                /\ genReq' = GenRequest(u, body)
                /\ UNCHANGED genFrame

\* Mongoose casts a question to the schema (models/Quiz.js 5-26): a number becomes
\* a string, an object cannot be cast to String
Castable(q) ==
    /\ q.question_text.t \in {"str", "num"}
    /\ q.correct_answer.t \in {"str", "num"}
CastQuestion(q) ==
    [question_text |-> q.question_text.v, question_type |-> q.question_type,
     options |-> q.options, correct_answer |-> q.correct_answer.v]
CastQuestions(qs) == [i \in 1..Len(qs) |-> CastQuestion(qs[i])]

\* validation run by quiz.save(): cast, required, enum
Validates(doc) ==
    \A i \in 1..Len(doc.questions) :
       LET q == doc.questions[i]
       IN  /\ Castable(q)
           /\ q.question_text.v # <<>> /\ q.correct_answer.v # <<>>
           /\ q.question_type \in QuestionTypeEnum

\* what a successful quiz.save() writes: the paths the closure modified
Persist(stored, doc) ==
    [stored EXCEPT !.questions = CastQuestions(doc.questions),
                   !.status = doc.status,
                   !.generation_error = doc.generation_error]

\* generateQuizWithAI settles (578): the chain goes to .then or to .catch
AiSettles ==
    \E i \in 1..Len(genTask) :
       /\ genTask[i].pc = "ai"
       /\ \E reply \in AiReplies :
             LET r == GenerateQuizWithAI(reply, genTask[i].settings)
             IN  genTask' = [genTask EXCEPT
                     ![i].pc = IF r.ok THEN "then" ELSE "catch",
                     ![i].value = r.questions,
                     ![i].error = r.error]
       /\ UNCHANGED <<quizzes, genRes, genReq, genFrame>>

\* ThenHandler with the failure path taken after a save that succeeded
ThenHandler_CatchAfterSave ==
    \E i \in 1..Len(genTask) :
       /\ genTask[i].pc = "then"
       /\ LET doc == [genTask[i].doc EXCEPT !.questions = genTask[i].value,
                                            !.status = "completed"]
          IN  /\ Validates(doc)
              /\ quizzes' = [quizzes EXCEPT ![i] = Persist(quizzes[i], doc)]
              /\ genTask' = [genTask EXCEPT ![i].doc = doc, ![i].pc = "catch",
                                            ![i].error = "after save"]
       /\ UNCHANGED <<genRes, genReq, genFrame>>

\* lines 579-585: a rejected save() rejects the promise .then returned, which
\* the .catch below it handles
ThenHandler ==
    \E i \in 1..Len(genTask) :
       /\ genTask[i].pc = "then"
       /\ \E dbOk \in BOOLEAN :
             LET doc == [genTask[i].doc EXCEPT !.questions = genTask[i].value,
                                               !.status = "completed"]
             IN  IF Validates(doc) /\ dbOk
                 THEN /\ quizzes' = [quizzes EXCEPT ![i] = Persist(quizzes[i], doc)]
                      /\ genTask' = [genTask EXCEPT ![i].doc = doc, ![i].pc = "done"]
                 ELSE /\ quizzes' = quizzes
                      /\ genTask' = [genTask EXCEPT ![i].doc = doc, ![i].pc = "catch",
                                                    ![i].error = "save failed"]
       /\ UNCHANGED <<genRes, genReq, genFrame>>

\* lines 586-591: a rejected save() here is handled by nobody
CatchHandler ==
    \E i \in 1..Len(genTask) :
       /\ genTask[i].pc = "catch"
       /\ \E dbOk \in BOOLEAN :
             LET doc == [genTask[i].doc EXCEPT !.status = "failed",
                                               !.generation_error = genTask[i].error]
             IN  IF Validates(doc) /\ dbOk
                 THEN /\ quizzes' = [quizzes EXCEPT ![i] = Persist(quizzes[i], doc)]
                      /\ genTask' = [genTask EXCEPT ![i].doc = doc, ![i].pc = "done"]
                 ELSE /\ quizzes' = quizzes
                      /\ genTask' = [genTask EXCEPT ![i].doc = doc,
                                                    ![i].pc = "unhandled"]
       /\ UNCHANGED <<genRes, genReq, genFrame>>

\* Quiz.findOne({_id, user_id, is_deleted: false}) (615-619)
FindQuiz(u, id) ==
    /\ id \in 1..Len(quizzes)
    /\ quizzes[id].user_id = u
    /\ ~quizzes[id].is_deleted

\* getQuizStatus (610-634): the answer
QuizStatusResponse(u, id) ==
    IF FindQuiz(u, id) THEN Response("getQuizStatus", u, 200, id)
    ELSE Response("getQuizStatus", u, 404, 0)

\* page.tsx 990-1005: the page that asked for quiz i polls its status every 2 s
\* until it reads 'completed' (it navigates) or 'failed' (it reports the error)
CheckStatus ==
    \E i \in 1..Len(genTask) :
       /\ genTask[i].poll = "polling"
       /\ QuizStatusResponse(quizzes[i].user_id, i).code = 200
       /\ quizzes[i].status \in {"completed", "failed"}
       /\ genTask' = [genTask EXCEPT ![i].poll =
                         IF quizzes[i].status = "completed" THEN "navigated" ELSE "error"]
       /\ genRes' = QuizStatusResponse(quizzes[i].user_id, i)
       /\ UNCHANGED <<quizzes, genReq, genFrame>>

----------------------------------------------------------------------------
(* Strings: String.prototype.trim and toLowerCase on sequences of characters *)

Whitespace == {" "}
RECURSIVE TrimStart(_)
TrimStart(s) == IF s # <<>> /\ Head(s) \in Whitespace THEN TrimStart(Tail(s)) ELSE s
RECURSIVE TrimEnd(_)
TrimEnd(s) == IF s # <<>> /\ Last(s) \in Whitespace THEN TrimEnd(Front(s)) ELSE s
Trim(s) == TrimEnd(TrimStart(s))
UpperCase == <<"A", "B", "C", "D", "E", "F", "G", "H", "I", "J", "K", "L", "M",
               "N", "O", "P", "Q", "R", "S", "T", "U", "V", "W", "X", "Y", "Z">>
LowerCase == <<"a", "b", "c", "d", "e", "f", "g", "h", "i", "j", "k", "l", "m",
               "n", "o", "p", "q", "r", "s", "t", "u", "v", "w", "x", "y", "z">>
LowerTable == [c \in {UpperCase[i] : i \in DOMAIN UpperCase} |->
                  LowerCase[CHOOSE i \in DOMAIN UpperCase : UpperCase[i] = c]]
LowerOf(c) == IF c \in DOMAIN LowerTable THEN LowerTable[c] ELSE c
ToLowerCase(s) == [i \in 1..Len(s) |-> LowerOf(s[i])]

----------------------------------------------------------------------------
(* Numbers: the score is computed in IEEE-754 binary64 (quizController.js
   845-848). A positive double is [m, e]: m its MantissaBits mantissa bits,
   most significant first, and its value is m * 2^e; zero has no bits. Every
   operation rounds to nearest, ties to even. *)

MantissaBits == 53
Zero == [m |-> <<>>, e |-> 0]
RECURSIVE BitsOf(_)
BitsOf(n) == IF n = 0 THEN <<>> ELSE Append(BitsOf(n \div 2), n % 2)
RECURSIVE ValueOf(_)
ValueOf(b) == IF b = <<>> THEN 0 ELSE 2 * ValueOf(Front(b)) + Last(b)
RECURSIVE Increment(_)
Increment(b) ==
    IF b = <<>> THEN <<1>>
    ELSE IF Last(b) = 0 THEN Append(Front(b), 1)
    ELSE Append(Increment(Front(b)), 0)
\* the double nearest to b * 2^e (+ something below the last bit of b when rest)
RoundBits(b, e, rest) ==
    LET n       == Len(b)
        kept    == SubSeq(b, 1, MantissaBits)
        dropped == SubSeq(b, MantissaBits + 1, n)
        guard   == dropped # <<>> /\ dropped[1] = 1
        sticky  == rest \/ \E i \in 2..Len(dropped) : dropped[i] = 1
        up      == guard /\ (sticky \/ kept[MantissaBits] = 1)
        r       == IF up THEN Increment(kept) ELSE kept
    IN  IF Len(r) > MantissaBits
        THEN [m |-> SubSeq(r, 1, MantissaBits), e |-> e + (n - MantissaBits) + 1]
        ELSE [m |-> r, e |-> e + (n - MantissaBits)]
\* n / d as (n' / d') * 2^e with d' <= n' < 2 d'
RECURSIVE Scale(_, _, _)
Scale(n, d, e) ==
    IF n < d THEN Scale(2 * n, d, e - 1)
    ELSE IF n >= 2 * d THEN Scale(n, 2 * d, e + 1)
    ELSE [n |-> n, d |-> d, e |-> e]
\* the first k binary digits of r / d (r < 2 d), and what is left after them
RECURSIVE Digits(_, _, _)
Digits(r, d, k) ==
    IF k = 0 THEN <<>>
    ELSE LET bit == IF r >= d THEN 1 ELSE 0
         IN  <<bit>> \o Digits(2 * (r - bit * d), d, k - 1)
RECURSIVE Remainder(_, _, _)
Remainder(r, d, k) ==
    IF k = 0 \/ r = 0 THEN r
    ELSE Remainder(2 * (r - (IF r >= d THEN d ELSE 0)), d, k - 1)
\* the JavaScript quotient n / d of two positive integers
Divide(n, d) ==
    IF n = 0 THEN Zero
    ELSE LET s == Scale(n, d, 0)
         IN  RoundBits(Digits(s.n, s.d, MantissaBits + 1), s.e - MantissaBits,
                       Remainder(s.n, s.d, MantissaBits + 1) # 0)
\* bits b times k plus carry, from the last bit upwards (a zero product of a
\* bit carries nothing)
RECURSIVE MulBits(_, _, _)
MulBits(b, k, carry) ==
    IF b = <<>> THEN BitsOf(carry)
    ELSE LET t == Last(b) * k + carry
         IN  IF t = 0 THEN Append(MulBits(Front(b), k, 0), 0)
             ELSE Append(MulBits(Front(b), k, t \div 2), t % 2)
\* the JavaScript product x * k of a double and a positive integer
Multiply(x, k) ==
    IF x.m = <<>> THEN Zero ELSE RoundBits(MulBits(x.m, k, 0), x.e, FALSE)
\* Math.round of a double below 2^MantissaBits: floor(x + 0.5), exactly
MathRound(x) ==
    LET intLen == MantissaBits + x.e
    IN  IF x.m = <<>> \/ intLen < 0 THEN 0
        ELSE ValueOf(SubSeq(x.m, 1, intLen)) + x.m[intLen + 1]
\* quizController.js 845-848
Score(correctCount, totalQuestions) ==
    IF totalQuestions > 0
    THEN MathRound(Multiply(Divide(correctCount, totalQuestions), 100))
    ELSE 0

----------------------------------------------------------------------------
(* submitQuizAttempt and the attempt handlers: quizController.js 715-1119 *)

\* answer.user_answer || '' (798, 807)
OrEmpty(x) == IF TruthyValue(x) THEN x.v ELSE <<>>

\* one entry of req.body.answers; a question's _id is its position in the quiz
Answer(qid, ua) == [question_id |-> qid, user_answer |-> ua]

\* req.body of submitQuizAttempt (719): startedAt and completedAt are instants
\* in milliseconds, 0 when the field is missing
SubmitBody(isArray, answers, startedAt, completedAt, forced) ==
    [isArray |-> isArray, answers |-> answers, startedAt |-> startedAt,
     completedAt |-> completedAt, forcedByTimer |-> forced]

\* Quiz.findOne({_id, user_id, is_deleted: false, status: 'completed'})
\* (698-703, 739-744)
FindCompletedQuiz_AnyStatus(u, id) == FindQuiz(u, id)
FindCompletedQuiz(u, id) == FindQuiz(u, id) /\ quizzes[id].status = "completed"

\* the callback of answers.map (762-842); time_spent is copied and read by
\* nothing: it is left out
ProcessAnswer(quiz, answer) ==
    IF answer.question_id \notin 1..Len(quiz.questions)
    THEN [question_id |-> answer.question_id,
          user_answer |-> OrEmpty(answer.user_answer), is_correct |-> FALSE]
    ELSE LET question                == quiz.questions[answer.question_id]
             userAnswer              == OrEmpty(answer.user_answer)
             wasAnswered             == Trim(userAnswer) # <<>>
             userAnswerNormalized    == ToLowerCase(Trim(userAnswer))
             correctAnswerNormalized == ToLowerCase(Trim(question.correct_answer))
             isCorrect == wasAnswered /\ userAnswerNormalized = correctAnswerNormalized
         IN  [question_id |-> answer.question_id, user_answer |-> userAnswer,
              is_correct |-> isCorrect]

\* attemptData (863-874)
AttemptData(u, id, body) ==
    LET quiz             == quizzes[id]
        processedAnswers == [i \in 1..Len(body.answers) |->
                                ProcessAnswer(quiz, body.answers[i])]
        correctCount     == Cardinality({i \in 1..Len(body.answers) :
                                            processedAnswers[i].is_correct})
        totalQuestions   == Len(quiz.questions)
    IN  [quiz_id |-> id, user_id |-> u, answers |-> processedAnswers,
         score |-> Score(correctCount, totalQuestions),
         total_questions |-> totalQuestions, correct_answers |-> correctCount,
         time_taken |-> (body.completedAt - body.startedAt) \div 1000,
         completed_at |-> body.completedAt,
         forced_by_timer |-> body.forcedByTimer, is_deleted |-> FALSE]

\* QuizAttempt schema validation (models/QuizAttempt.js 37-42)
AttemptValidates(a) == a.score >= 0 /\ a.score <= 100

\* the input validation of submitQuizAttempt (728-737)
BodyOk(body) == body.isArray /\ body.startedAt # 0 /\ body.completedAt # 0

\* lines 715-915: what the handler stores and answers; dbOk is whether
\* QuizAttempt.create reaches the database
SubmitQuizAttempt(u, id, body, dbOk) ==
    LET op == "submitQuizAttempt" IN
    IF ~BodyOk(body)
    THEN attempts' = attempts /\ srvRes' = Response(op, u, 400, 0)
    ELSE IF ~FindCompletedQuiz(u, id)
    THEN attempts' = attempts /\ srvRes' = Response(op, u, 404, 0)
    ELSE IF Len(quizzes[id].questions) = 0
    THEN attempts' = attempts /\ srvRes' = Response(op, u, 400, 0)
    ELSE IF ~(AttemptValidates(AttemptData(u, id, body)) /\ dbOk)
    THEN attempts' = attempts /\ srvRes' = Response(op, u, 500, 0)
    ELSE /\ attempts' = Append(attempts, AttemptData(u, id, body))
         /\ srvRes' = Response(op, u, 201, Len(attempts) + 1)

\* getQuiz (692-713)
GetQuiz(u, id) ==
    srvRes' = IF FindCompletedQuiz(u, id) THEN Response("getQuiz", u, 200, id)
              ELSE Response("getQuiz", u, 404, 0)

\* getQuizStatus (610-634)
GetQuizStatus(u, id) == srvRes' = QuizStatusResponse(u, id)

\* QuizAttempt.findOne({_id, user_id, is_deleted: false}) (940-944)
FindAttempt(u, id) ==
    /\ id \in 1..Len(attempts)
    /\ attempts[id].user_id = u
    /\ ~attempts[id].is_deleted

\* getQuizAttempt (935-958)
GetQuizAttempt(u, id) ==
    srvRes' = IF FindAttempt(u, id) THEN Response("getQuizAttempt", u, 200, id)
              ELSE Response("getQuizAttempt", u, 404, 0)

\* deleteAttempt (1070-1119): findOneAndUpdate({_id, user_id}, {is_deleted: true});
\* the answer carries no record
DeleteAttempt_AnyUser(u, id) ==
    IF id \in 1..Len(attempts)
    THEN /\ attempts' = [attempts EXCEPT ![id].is_deleted = TRUE]
         /\ srvRes' = Response("deleteAttempt", u, 200, 0)
    ELSE /\ attempts' = attempts
         /\ srvRes' = Response("deleteAttempt", u, 404, 0)
DeleteAttempt(u, id) ==
    IF id \in 1..Len(attempts) /\ attempts[id].user_id = u
    THEN /\ attempts' = [attempts EXCEPT ![id].is_deleted = TRUE]
         /\ srvRes' = Response("deleteAttempt", u, 200, 0)
    ELSE /\ attempts' = attempts
         /\ srvRes' = Response("deleteAttempt", u, 404, 0)

\* QuizAttempt.find({user_id, is_deleted: false}) (964-967, 990-993; with quiz_id
\* 1034-1038; progress.routes.js 30-34)
VisibleAttempts_All(u) == {i \in 1..Len(attempts) : attempts[i].user_id = u}
VisibleAttempts(u) ==
    {i \in 1..Len(attempts) : attempts[i].user_id = u /\ ~attempts[i].is_deleted}
\* an answer that lists attempts: 200, their number and their ids; the order of
\* the list (sort) is left out
ListResponse(op, u, ids) ==
    [Response(op, u, 200, Cardinality(ids)) EXCEPT !.list = ids]

\* getUserQuizHistory (960-981): the 20 attempts created last
HistoryLimit == 20
GetUserQuizHistory(u) ==
    srvRes' = ListResponse("getUserQuizHistory", u,
                 {i \in VisibleAttempts(u) :
                     Cardinality({j \in VisibleAttempts(u) : j > i}) < HistoryLimit})
\* getAllUserAttempts (983-1023)
GetAllUserAttempts(u) ==
    srvRes' = ListResponse("getAllUserAttempts", u, VisibleAttempts(u))
\* getQuizAttempts (1025-1067)
GetQuizAttempts(u, quizId) ==
    srvRes' = ListResponse("getQuizAttempts", u,
                 {i \in VisibleAttempts(u) : attempts[i].quiz_id = quizId})
\* GET /stats (progress.routes.js 12-108): the attempts completed within the
\* range, which `statistics` is computed from; now is an instant in milliseconds
WeekMs == 604800000
DateFilter(range, now, a) == range = "week" => a.completed_at >= now - WeekMs
ProgressStats(u, range, now) ==
    srvRes' = ListResponse("stats", u,
                 {i \in VisibleAttempts(u) : DateFilter(range, now, attempts[i])})

----------------------------------------------------------------------------
(* The quiz-taking page: frontend/app/quiz/[quizId]/page.tsx 48-631, and the
   progress handlers it calls: quizController.js 1168-1252.
   The page belongs to user u1 and shows quiz 1. Time passes in steps of one
   second; an instant is a number of milliseconds. *)

SecondsPerMinute == 60        \* quiz.time_limit * 60
AutosaveSeconds  == 10        \* setInterval(saveQuizProgress, 10000)
Epoch            == 100000    \* the instant the model starts at
Now              == Epoch + ticks * 1000
QuestionIds      == 1..Len(quizzes[1].questions)

\* Date.prototype.toISOString and new Date(string)
ToISOString(d) == [iso |-> d]
NewDate(s)     == s.iso

\* a Map of answers is a function from the question ids to the answer, Undef
\* where the Map has no entry; answersObj / Object.entries list its entries
NoAnswers      == [q \in QuestionIds |-> Undef]
ToObject(m)    == {<<q, m[q].v>> : q \in {k \in DOMAIN m : m[k].t # "undef"}}
\* (variant: the restored texts trimmed)
FromEntries_Trimmed(o) ==
    [q \in QuestionIds |->
        IF \E p \in o : p[1] = q THEN Str(Trim((CHOOSE p \in o : p[1] = q)[2])) ELSE Undef]
FromEntries(o) ==
    [q \in QuestionIds |->
        IF \E p \in o : p[1] = q THEN Str((CHOOSE p \in o : p[1] = q)[2]) ELSE Undef]

\* useState initial values (54-65); open: the page is mounted
NewPage(now) ==
    [open |-> TRUE, quiz |-> FALSE, currentQuestionIndex |-> 0,
     answers |-> NoAnswers, startTime |-> now, timeRemaining |-> NoNum,
     isSubmitting |-> FALSE, error |-> FALSE, showIncompleteWarning |-> FALSE,
     progressLoaded |-> FALSE]
\* the render guards (429-460): with an error, or without the quiz, the page
\* shows no question and no button
Interactive(s) == s.open /\ s.quiz /\ ~s.error
\* what the handleSubmitQuiz created by the render s reads
Capture(s, active) ==
    [active |-> active, quiz |-> s.quiz, isSubmitting |-> s.isSubmitting,
     answers |-> s.answers, startTime |-> s.startTime]
NoCapture == Capture(NewPage(Epoch), FALSE)

\* answer === undefined || answer.trim() === '' (298-314)
Unanswered(answers, q) == answers[q].t = "undef" \/ Trim(answers[q].v) = <<>>
AreAllQuestionsAnswered(s) == \A q \in QuestionIds : ~Unanswered(s.answers, q)
GetUnansweredQuestions(s)  == {q - 1 : q \in {k \in QuestionIds : Unanswered(s.answers, k)}}
Min(S) == CHOOSE x \in S : \A y \in S : x <= y

\* the timer effect (110-129) and the autosave effect (132-142) after a render:
\* an effect runs again when one of its dependencies changed; setAnswers always
\* makes a new Map
TimerOn(s) == s.timeRemaining > 0 /\ ~s.isSubmitting /\ s.progressLoaded
TimerEffect(old, new, cap) ==
    IF <<old.timeRemaining, old.isSubmitting, old.progressLoaded>>
         = <<new.timeRemaining, new.isSubmitting, new.progressLoaded>>
    THEN cap
    ELSE IF TimerOn(new) THEN Capture(new, TRUE) ELSE NoCapture
Active(s) == s.open /\ s.quiz /\ ~s.isSubmitting /\ s.progressLoaded
AutosaveDeps(s) ==
    <<s.quiz, s.currentQuestionIndex, s.timeRemaining, s.isSubmitting, s.progressLoaded>>
AutosaveEffect(old, new, newMap, cur) ==
    IF ~newMap /\ AutosaveDeps(old) = AutosaveDeps(new) THEN cur
    ELSE IF Active(new) THEN AutosaveSeconds ELSE 0
\* a render that commits the state new: the page's state and its two intervals
Rendered(new, newMap) ==
    /\ sess' = new
    /\ timerCap' = TimerEffect(sess, new, timerCap)
    /\ saveIn' = AutosaveEffect(sess, new, newMap, saveIn)

\* the four values a saveQuizProgress reads from its render s
SavedState(s) ==
    [currentQuestionIndex |-> s.currentQuestionIndex, answers |-> s.answers,
     startTime |-> s.startTime, timeRemaining |-> s.timeRemaining]
\* the body of POST save-progress sent by saveQuizProgress (249-276) from the
\* render s
ProgressBody(s) ==
    [currentQuestionIndex |-> s.currentQuestionIndex, answers |-> ToObject(s.answers),
     startTime |-> ToISOString(s.startTime), timeRemaining |-> s.timeRemaining]
\* the body sent by clearQuizProgress (394-416)
ClearBody ==
    [currentQuestionIndex |-> 0, answers |-> {}, startTime |-> ToISOString(Now),
     timeRemaining |-> NoNum, isCompleted |-> TRUE]

\* saveQuizProgress of the controller (1168-1217): findOneAndUpdate with upsert
\* on {quiz_id, user_id, is_completed: false}; isCompleted is not read
SaveQuizProgress(body) ==
    << [current_question_index |-> body.currentQuestionIndex,
        answers |-> body.answers, start_time |-> NewDate(body.startTime),
        time_remaining |-> body.timeRemaining, is_completed |-> FALSE] >>
\* getQuizProgress (1220-1252): the document that is not completed, or null
GetQuizProgress == SelectSeq(progress, LAMBDA d : ~d.is_completed)

\* the body of POST submit built by handleSubmitQuiz (334-364) from the render s
SubmitRequest(s, force) ==
    SubmitBody(TRUE,
               [q \in QuestionIds |->
                   Answer(q, IF s.answers[q].t # "undef"
                             THEN Str(Trim(s.answers[q].v)) ELSE Str(<<>>))],
               s.startTime, Now, force)

\* ---- the page's handlers ----
MaxTicks     == 2     \* seconds a session is followed for
MaxIdleTicks == 12    \* the same, where the autosave is followed
AnswerTexts  == {<<" ">>, <<"a", " ">>}
sessionFrame == <<uploadVars, uploadedFiles, genVars, chatVars>>

\* fetchQuiz (144-177), answered by getQuiz
FetchQuiz ==
    /\ sess.open /\ ~sess.quiz
    /\ GetQuiz("u1", 1)
    /\ srvReq' = Request("getQuiz", "u1", 1, TRUE)
    /\ Rendered([sess EXCEPT !.quiz = (srvRes'.code = 200)], FALSE)
    /\ UNCHANGED <<attempts, pending, progress, reqLog, saveLog, sinceSave, ticks,
                   sessionFrame>>

\* loadQuizProgress (179-247), answered by getQuizProgress
LoadQuizProgress ==
    /\ sess.open /\ sess.quiz /\ ~sess.progressLoaded
    /\ LET found == GetQuizProgress
           limit == quizzes[1].time_limit
           timed == limit # NoNum /\ limit # 0
           full  == limit * SecondsPerMinute
           p     == found[1]
       IN  IF found # <<>>
           THEN Rendered(
                  [sess EXCEPT
                     !.currentQuestionIndex =
                        IF p.current_question_index \in {0, NoNum} THEN 0
                        ELSE p.current_question_index,
                     !.answers = FromEntries(p.answers),
                     !.timeRemaining = IF p.time_remaining # NoNum THEN p.time_remaining
                                       ELSE IF timed THEN full ELSE @,
                     !.startTime = NewDate(ToISOString(p.start_time)),
                     !.progressLoaded = TRUE], TRUE)
           ELSE Rendered(
                  [sess EXCEPT
                     !.timeRemaining = IF timed /\ @ = NoNum THEN full ELSE @,
                     !.progressLoaded = TRUE], FALSE)
    /\ sinceSave' = 0
    /\ UNCHANGED <<attemptVars, pending, progress, reqLog, saveLog, ticks, sessionFrame>>

\* handleAnswerChange (278-284) on the question shown; the callback of
\* setTimeout is the saveQuizProgress of the render the handler belongs to: what
\* it will send, or skip (its guard `isSubmitting`), is settled here; text is
\* history, the answer the handler was called with. The user changes an answer
\* once in 100 ms at most
AnswerChange ==
    /\ Interactive(sess) /\ pending = <<>>
    /\ \E text \in AnswerTexts :
          /\ Rendered([sess EXCEPT !.answers[sess.currentQuestionIndex + 1] = Str(text),
                                   !.showIncompleteWarning = FALSE], TRUE)
          /\ pending' = Append(pending, [skip |-> sess.isSubmitting,
                                         s |-> SavedState(sess), text |-> text,
                                         late |-> FALSE])
    /\ UNCHANGED <<attemptVars, progress, reqLog, saveLog, sinceSave, ticks, sessionFrame>>

\* the setTimeout callback runs: saveQuizProgress (249-276) of an earlier render
TimeoutFire ==
    /\ pending # <<>>
    /\ pending' = Tail(pending)
    /\ IF Head(pending).skip
       THEN UNCHANGED <<progress, saveLog, sinceSave>>
       ELSE /\ progress' = SaveQuizProgress(ProgressBody(Head(pending).s))
            /\ saveLog' = <<[from |-> Head(pending).s, isCompleted |-> FALSE]>>
            /\ sinceSave' = 0
    /\ UNCHANGED <<attemptVars, sess, timerCap, saveIn, reqLog, ticks, sessionFrame>>

\* handleNextQuestion (286-290), handlePreviousQuestion (292-296), a button of
\* the question grid (616)
NextQuestion ==
    /\ Interactive(sess)
    /\ sess.currentQuestionIndex < Len(quizzes[1].questions) - 1
    /\ Rendered([sess EXCEPT !.currentQuestionIndex = @ + 1], FALSE)
    /\ UNCHANGED <<attemptVars, pending, progress, reqLog, saveLog, sinceSave, ticks,
                   sessionFrame>>
PreviousQuestion ==
    /\ Interactive(sess)
    /\ sess.currentQuestionIndex > 0
    /\ Rendered([sess EXCEPT !.currentQuestionIndex = @ - 1], FALSE)
    /\ UNCHANGED <<attemptVars, pending, progress, reqLog, saveLog, sinceSave, ticks,
                   sessionFrame>>
GridClick ==
    /\ Interactive(sess)
    /\ \E q \in QuestionIds :
          /\ q - 1 # sess.currentQuestionIndex
          /\ Rendered([sess EXCEPT !.currentQuestionIndex = q - 1], FALSE)
    /\ UNCHANGED <<attemptVars, pending, progress, reqLog, saveLog, sinceSave, ticks,
                   sessionFrame>>


\* (variant: a question counts as answered once the Map has an entry for it)
HandleSubmitQuiz_HasAnswer(s, force, base) ==
    IF ~s.quiz \/ s.isSubmitting
    THEN Rendered(base, FALSE) /\ UNCHANGED <<reqLog, attemptVars>>
    ELSE IF ~force /\ \E q \in QuestionIds : s.answers[q].t = "undef"
    THEN /\ Rendered([base EXCEPT !.showIncompleteWarning = TRUE,
                                  !.currentQuestionIndex =
                                     IF GetUnansweredQuestions(s) # {}
                                     THEN Min(GetUnansweredQuestions(s)) ELSE @], FALSE)
         /\ UNCHANGED <<reqLog, attemptVars>>
    ELSE /\ sess' = [base EXCEPT !.isSubmitting = TRUE, !.error = FALSE]
         /\ timerCap' = NoCapture
         /\ saveIn' = 0
         /\ reqLog' = Append(reqLog, SubmitRequest(s, force))
         /\ \E dbOk \in {TRUE} \cup {ok \in {FALSE} : reqLog = <<>>} :
               SubmitQuizAttempt("u1", 1, SubmitRequest(s, force), dbOk)
         /\ srvReq' = Request("submitQuizAttempt", "u1", 1, TRUE)
\* handleSubmitQuiz(forceSubmit) (316-392) up to the request, called from the
\* render s while the page's state is about to become base; the request is
\* answered by submitQuizAttempt, whose create may fail for the first request
\* of a visit
HandleSubmitQuiz(s, force, base) ==
    IF ~s.quiz \/ s.isSubmitting
    THEN Rendered(base, FALSE) /\ UNCHANGED <<reqLog, attemptVars>>
    ELSE IF ~force /\ ~AreAllQuestionsAnswered(s)
    THEN /\ Rendered([base EXCEPT !.showIncompleteWarning = TRUE,
                                  !.currentQuestionIndex =
                                     IF GetUnansweredQuestions(s) # {}
                                     THEN Min(GetUnansweredQuestions(s)) ELSE @], FALSE)
         /\ UNCHANGED <<reqLog, attemptVars>>
    ELSE /\ sess' = [base EXCEPT !.isSubmitting = TRUE, !.error = FALSE]
         /\ timerCap' = NoCapture
         /\ saveIn' = 0
         /\ reqLog' = Append(reqLog, SubmitRequest(s, force))
         /\ \E dbOk \in {TRUE} \cup {ok \in {FALSE} : reqLog = <<>>} :
               SubmitQuizAttempt("u1", 1, SubmitRequest(s, force), dbOk)
         /\ srvReq' = Request("submitQuizAttempt", "u1", 1, TRUE)

\* the submit button (571-574) calls handleSubmitQuiz(false). The button is
\* rendered disabled while a question is unanswered; the handler is followed
\* from every state all the same
SubmitClick ==
    /\ Interactive(sess) /\ ~sess.isSubmitting
    /\ HandleSubmitQuiz(sess, FALSE, sess)
    /\ UNCHANGED <<pending, progress, saveLog, sinceSave, ticks, sessionFrame>>

\* handleSubmitQuiz from the response on (366-391): clearQuizProgress (394-416)
\* and router.push, which unmounts the page and drops its state; or setError
\* and setIsSubmitting(false), and then the timer effect with
\* timeRemaining === 0 submits again (126-128)
SubmitResponse ==
    /\ sess.open /\ sess.isSubmitting
    /\ IF srvRes.code = 201
       THEN /\ progress' = SaveQuizProgress(ClearBody)
            /\ saveLog' = <<[from |-> SavedState([NewPage(Now) EXCEPT !.answers = NoAnswers]),
                             isCompleted |-> TRUE]>>
            /\ sess' = [NewPage(Epoch) EXCEPT !.open = FALSE]
            /\ timerCap' = NoCapture
            /\ saveIn' = 0
            /\ UNCHANGED <<reqLog, attemptVars, sinceSave>>
       ELSE /\ IF sess.timeRemaining = 0
               THEN HandleSubmitQuiz([sess EXCEPT !.isSubmitting = FALSE, !.error = TRUE],
                                     TRUE,
                                     [sess EXCEPT !.isSubmitting = FALSE, !.error = TRUE])
               ELSE /\ Rendered([sess EXCEPT !.isSubmitting = FALSE, !.error = TRUE], FALSE)
                    /\ UNCHANGED <<reqLog, attemptVars>>
            /\ sinceSave' = 0
            /\ UNCHANGED <<progress, saveLog>>
    /\ UNCHANGED <<pending, ticks, sessionFrame>>

\* one second passes. The countdown interval (112-121) runs the updater: at
\* prev <= 1 it calls the handleSubmitQuiz(true) of the render that created the
\* interval; otherwise the new timeRemaining renders and both effects run again.
\* Without a countdown the autosave interval (134-136) fires on its tenth second.
\* A setTimeout callback is due before a second second passes; the quiz and
\* its progress arrive within the first.
Tick(bound) ==
    /\ sess.open /\ sess.progressLoaded /\ ticks < bound
    /\ \A i \in 1..Len(pending) : ~pending[i].late
    /\ ticks' = ticks + 1
    /\ pending' = [i \in 1..Len(pending) |-> [pending[i] EXCEPT !.late = TRUE]]
    /\ IF timerCap.active /\ sess.timeRemaining <= 1
       THEN /\ HandleSubmitQuiz(timerCap, TRUE, [sess EXCEPT !.timeRemaining = 0])
            /\ UNCHANGED <<progress, saveLog, sinceSave>>
       ELSE IF timerCap.active
       THEN /\ Rendered([sess EXCEPT !.timeRemaining = @ - 1], FALSE)
            /\ sinceSave' = sinceSave + 1
            /\ UNCHANGED <<progress, saveLog, reqLog, attemptVars>>
       ELSE IF saveIn = 1
       THEN /\ progress' = SaveQuizProgress(ProgressBody(sess))
            /\ saveLog' = <<[from |-> SavedState(sess), isCompleted |-> FALSE]>>
            /\ sinceSave' = 0
            /\ saveIn' = AutosaveSeconds
            /\ UNCHANGED <<sess, timerCap, reqLog, attemptVars>>
       ELSE /\ saveIn' = IF saveIn > 0 THEN saveIn - 1 ELSE 0
            /\ sinceSave' = IF Active(sess) THEN sinceSave + 1 ELSE sinceSave
            /\ UNCHANGED <<sess, timerCap, progress, saveLog, reqLog, attemptVars>>
    /\ UNCHANGED sessionFrame
SessionTick  == Tick(MaxTicks)
AutosaveTick == Tick(MaxIdleTicks)

\* the user leaves the page and opens the quiz again: a new mount
Reopen ==
    /\ sess.quiz /\ pending = <<>>
    /\ sess' = NewPage(Now)
    /\ timerCap' = NoCapture
    /\ saveIn' = 0
    /\ sinceSave' = 0
    /\ UNCHANGED <<attemptVars, pending, progress, reqLog, saveLog, ticks, sessionFrame>>
----------------------------------------------------------------------------
(* The tutor chat: tutorController in backend/models/ChatSession.js *)

DecimalDigits == {"0", "1", "2", "3", "4", "5", "6", "7", "8", "9"}
\* the characters \w matches; \b is the border between one of them and another
WordChars ==
    {UpperCase[i] : i \in DOMAIN UpperCase} \cup {LowerCase[i] : i \in DOMAIN LowerCase}
        \cup DecimalDigits \cup {"_"}
\* self[\s-]?harm
SelfHarm == {<<"s", "e", "l", "f">> \o sep \o <<"h", "a", "r", "m">> :
                sep \in {<<>>, <<"-">>} \cup {<<c>> : c \in Whitespace}}
\* the alternatives of explicitPatterns
ExplicitWords ==
    {<<"s", "e", "x">>, <<"s", "e", "x", "u", "a", "l">>, <<"p", "o", "r", "n">>,
     <<"n", "u", "d", "e">>, <<"n", "a", "k", "e", "d">>,
     <<"e", "x", "p", "l", "i", "c", "i", "t">>, <<"x", "x", "x">>,
     <<"a", "d", "u", "l", "t", " ", "c", "o", "n", "t", "e", "n", "t">>,
     <<"n", "s", "f", "w">>, <<"k", "i", "l", "l">>, <<"m", "u", "r", "d", "e", "r">>,
     <<"s", "u", "i", "c", "i", "d", "e">>, <<"b", "o", "m", "b">>,
     <<"w", "e", "a", "p", "o", "n">>, <<"a", "t", "t", "a", "c", "k">>,
     <<"t", "e", "r", "r", "o", "r", "i", "s", "t">>, <<"h", "a", "t", "e">>,
     <<"r", "a", "c", "i", "s", "t">>,
     <<"d", "i", "s", "c", "r", "i", "m", "i", "n", "a", "t", "i", "o", "n">>,
     <<"s", "l", "u", "r">>, <<"h", "a", "r", "a", "s", "s">>,
     <<"b", "u", "l", "l", "y">>, <<"t", "h", "r", "e", "a", "t", "e", "n">>,
     <<"s", "t", "a", "l", "k">>, <<"d", "r", "u", "g">>,
     <<"i", "l", "l", "e", "g", "a", "l">>, <<"h", "a", "c", "k">>,
     <<"e", "x", "p", "l", "o", "i", "t">>, <<"c", "h", "e", "a", "t">>,
     <<"h", "u", "r", "t", " ", "y", "o", "u", "r", "s", "e", "l", "f">>} \cup SelfHarm
\* the alternatives of the two word lists of spamPatterns
SpamWords ==
    {<<"c", "l", "i", "c", "k", " ", "h", "e", "r", "e">>,
     <<"b", "u", "y", " ", "n", "o", "w">>,
     <<"l", "i", "m", "i", "t", "e", "d", " ", "o", "f", "f", "e", "r">>,
     <<"v", "i", "a", "g", "r", "a">>, <<"c", "a", "s", "i", "n", "o">>,
     <<"l", "o", "t", "t", "e", "r", "y">>}
\* /\b(w)\b/ matches s at position i
WordAt(w, s, i) ==
    /\ i + Len(w) - 1 <= Len(s)
    /\ SubSeq(s, i, i + Len(w) - 1) = w
    /\ i = 1 \/ s[i - 1] \notin WordChars
    /\ i + Len(w) > Len(s) \/ s[i + Len(w)] \notin WordChars
MatchesWord(words, s) == \E w \in words : \E i \in 1..Len(s) : WordAt(w, s, i)
\* /(.)\1{10,}/ : a character followed by at least RepeatMin copies of itself
RepeatMin == 10
MatchesRepeat(s) ==
    \E i \in 1..(Len(s) - RepeatMin) : \A k \in 1..RepeatMin : s[i + k] = s[i]
MinMessageLength == 2
MaxMessageLength == 5000
Safe == [isSafe |-> TRUE, reason |-> Null]
Unsafe(reason) == [isSafe |-> FALSE, reason |-> reason]
CheckContentSafety(text) ==
    LET normalizedText == Trim(ToLowerCase(text))
    IN  IF Len(normalizedText) < MinMessageLength THEN Unsafe("Message is too short")
        ELSE IF Len(normalizedText) > MaxMessageLength THEN Unsafe("Message is too long")
        ELSE IF MatchesWord(ExplicitWords, normalizedText)
             THEN Unsafe("Content contains inappropriate or harmful language")
        ELSE IF MatchesRepeat(normalizedText) \/ MatchesWord(SpamWords, normalizedText)
             THEN Unsafe("Content appears to be spam")
        ELSE Safe

MaxSessions == 1
MaxMessages == 2
NoSession == 0                   \* a request body without sessionId
AiOutcomes == {"ok", "SAFETY_BLOCK", "error"}
\* the database call of the handler that throws, if any
ChatFailures == {"none", "session", "userMessage", "aiMessage", "save"}
ChatSession(u) == [user_id |-> u, message_count |-> 0, is_deleted |-> FALSE]
ChatMessage(id, u, role, content) ==
    [session_id |-> id, user_id |-> u, role |-> role, content |-> content,
     is_deleted |-> FALSE]
\* ChatSession.findOne({_id, user_id, is_deleted: false})
FindSession(u, id) ==
    /\ id \in 1..Len(chatSessions)
    /\ chatSessions[id].user_id = u
    /\ ~chatSessions[id].is_deleted
\* the text stored for the assistant
ResponseText(ai) ==
    CASE ai = "ok"           -> <<"o", "k">>
      [] ai = "SAFETY_BLOCK" -> <<"I", " ", "c", "a", "n", "n", "o", "t">>
      [] OTHER               -> <<"I", " ", "a", "p", "o", "l", "o", "g", "i", "z", "e">>
ChatRequest(op, u, message, sessionId) ==
    [op |-> op, user |-> u, message |-> message, sessionId |-> sessionId]
ChatResponse(code, blocked, sessionId) ==
    [code |-> code, blocked |-> blocked, sessionId |-> sessionId]
NoChatRequest == ChatRequest("none", "u1", <<>>, NoSession)
NoChatResponse == ChatResponse(0, FALSE, NoSession)
InitChat ==
    /\ chatSessions = <<>> /\ chatMessages = <<>> /\ aiCalls = 0
    /\ chatReq = NoChatRequest /\ chatRes = NoChatResponse

\* the messages requests are drawn from
LongMessage == [i \in 1..(MaxMessageLength + 1) |-> IF i % 2 = 0 THEN " " ELSE "a"]
Messages ==
    {<<>>, <<" ">>, <<"a">>, <<" ", "a", " ">>, <<"h", "i">>,
     <<"S", "k", "i", "l", "l", "s">>, <<"K", "I", "L", "L", " ", "i", "t">>, <<"S", "e", "l", "f", "-", "H", "a", "r", "m">>,
     <<"a", "a", "a", "a", "a", "a", "a", "a", "a", "a">>, <<"a", "a", "a", "a", "a", "a", "a", "a", "a", "a", "a">>,
     <<"B", "u", "y", " ", "n", "o", "w">>, LongMessage}

\* checkContentSafety on each message of the sample: its verdict depends on the
\* text alone
Verdict == [m \in Messages |-> CheckContentSafety(m)]
\* the handler's test of the message against the safety check
Blocked_TooLong(message) == Len(message) > MaxMessageLength
Blocked(message) == ~Verdict[message].isSafe

\* exports.chat: POST /api/tutor/chat
Chat ==
    \E u \in Users, message \in Messages, sessionId \in NoSession..MaxSessions :
        LET create   == sessionId = NoSession
            id       == IF create THEN Len(chatSessions) + 1 ELSE sessionId
            sessions == IF create THEN Append(chatSessions, ChatSession(u))
                        ELSE chatSessions
            asked    == Append(chatMessages, ChatMessage(id, u, "user", message))
            Answered(ai) ==
                Append(asked, ChatMessage(id, u, "assistant", ResponseText(ai)))
            counted  == [sessions EXCEPT ![id].message_count = @ + 2]
            Reply(code, blocked, ref, ss, ms, calls) ==
                /\ chatRes' = ChatResponse(code, blocked, ref)
                /\ chatSessions' = ss /\ chatMessages' = ms /\ aiCalls' = calls
            Reject(code, blocked) ==
                Reply(code, blocked, NoSession, chatSessions, chatMessages, aiCalls)
        IN  /\ chatReq' = ChatRequest("chat", u, message, sessionId)
            /\ IF message = <<>> \/ Trim(message) = <<>> THEN Reject(400, FALSE)
               ELSE IF Blocked(message) THEN Reject(400, TRUE)
               ELSE \E ai \in AiOutcomes, fail \in ChatFailures :
                    IF fail = "session" THEN Reject(500, FALSE)
                    ELSE IF ~create /\ ~FindSession(u, sessionId) THEN Reject(404, FALSE)
                    ELSE /\ create => Len(chatSessions) < MaxSessions
                         /\ Len(chatMessages) + 2 <= MaxMessages
                         /\ IF fail = "userMessage"
                            THEN Reply(500, FALSE, NoSession, sessions, chatMessages,
                                       aiCalls)
                            ELSE IF fail = "aiMessage"
                            THEN Reply(500, FALSE, NoSession, sessions, asked,
                                       aiCalls + 1)
                            ELSE IF ai # "ok"
                            THEN Reply(200, ai = "SAFETY_BLOCK", id, sessions,
                                       Answered(ai), aiCalls + 1)
                            ELSE IF fail = "save"
                            THEN Reply(500, FALSE, NoSession, sessions, Answered(ai),
                                       aiCalls + 1)
                            ELSE Reply(200, FALSE, id, counted, Answered(ai),
                                       aiCalls + 1)
            /\ UNCHANGED chatFrame

\* exports.deleteSession: DELETE /api/tutor/sessions/:sessionId
DeleteSession ==
    \E u \in Users, sessionId \in 1..MaxSessions, dbOk \in BOOLEAN :
        /\ chatReq' = ChatRequest("deleteSession", u, <<>>, sessionId)
        /\ IF ~dbOk
           THEN /\ chatRes' = ChatResponse(500, FALSE, NoSession)
                /\ UNCHANGED <<chatSessions, chatMessages>>
           ELSE IF ~FindSession(u, sessionId)
           THEN /\ chatRes' = ChatResponse(404, FALSE, NoSession)
                /\ UNCHANGED <<chatSessions, chatMessages>>
           ELSE /\ chatRes' = ChatResponse(200, FALSE, sessionId)
                /\ chatSessions' = [chatSessions EXCEPT ![sessionId].is_deleted = TRUE]
                /\ chatMessages' =
                      [i \in 1..Len(chatMessages) |->
                          IF chatMessages[i].session_id = sessionId
                          THEN [chatMessages[i] EXCEPT !.is_deleted = TRUE]
                          ELSE chatMessages[i]]
        /\ UNCHANGED <<aiCalls, chatFrame>>
----------------------------------------------------------------------------
(* Specifications *)

InitAttempts == attempts = <<>> /\ srvRes = NoResponse /\ srvReq = NoRequest

InitSessionIdle ==
    /\ sess = <<>> /\ timerCap = <<>> /\ pending = <<>> /\ saveIn = 0
    /\ progress = <<>> /\ reqLog = <<>> /\ saveLog = <<>> /\ sinceSave = 0
    /\ ticks = 0

\* uploadFiles, from an empty UploadedFile collection
UploadInit ==
    /\ InitUpload /\ uploadedFiles = <<>>
    /\ InitGen /\ InitAttempts /\ InitSessionIdle /\ InitChat
UploadNext ==
    \/ UploadRequest \/ ExtractTxt \/ ExtractPdfParse \/ ExtractPdf2Json
    \/ ExtractOcr \/ ExtractDocx \/ ExtractPptx \/ SaveFile \/ NextFile
SpecUpload == UploadInit /\ [][UploadNext]_vars

\* generateQuiz, over files that uploadFiles stored
GenInit ==
    /\ InitUpload /\ uploadedFiles = GenFiles
    /\ InitGen /\ InitAttempts /\ InitSessionIdle /\ InitChat
GenNext ==
    \/ GenerateQuiz \/ AiSettles \/ ThenHandler \/ CatchHandler \/ CheckStatus
SpecGen == GenInit /\ [][GenNext]_vars

\* submitQuizAttempt on one completed quiz of n fill-blank questions that all
\* have the correct answer ca, stored as generateQuiz stores them
MaxQuestions == 40
CorrectAnswers == {<<"A", " ">>, <<" ">>}
ScoreQuiz(n, ca) ==
    [user_id |-> "u1", quiz_type |-> {FB}, time_limit |-> NoNum,
     questions |-> [i \in 1..n |->
                      [question_text |-> <<"Q">>, question_type |-> FB,
                       options |-> <<>>, correct_answer |-> ca]],
     status |-> "completed", generation_error |-> Null, is_deleted |-> FALSE]
\* the answers a request can carry: the first k of the first n questions
\* answered s1, the others s2; one question answered twice; an unknown question
\* id; no array; a missing timestamp
MatchingAnswers == {Str(<<" ", "a">>), Str(<<"A">>)}
OtherAnswers    == {Str(<<>>), Str(<<" ">>), Str(<<"b">>), Undef}
PatternAnswers(n, k, s1, s2) ==
    [i \in 1..n |-> Answer(i, IF i <= k THEN s1 ELSE s2)]
ScoreBodies(Q) ==
    {SubmitBody(TRUE, PatternAnswers(b.n, b.k, b.s1, b.s2), 1000, 6500, FALSE) :
        b \in {c \in [n : {Q, Q \div 2}, k : 0..Q, s1 : MatchingAnswers,
                      s2 : OtherAnswers] : c.k <= c.n}}
    \cup {SubmitBody(TRUE, <<Answer(1, s), Answer(1, s)>>, 1000, 6500, TRUE) :
            s \in MatchingAnswers}
    \cup {SubmitBody(TRUE, <<Answer(0, s)>>, 1000, 6500, FALSE) : s \in MatchingAnswers}
    \cup {SubmitBody(FALSE, <<>>, 1000, 6500, FALSE),
          SubmitBody(TRUE, <<>>, 0, 6500, FALSE)}
ScoreInit ==
    /\ InitUpload /\ uploadedFiles = <<>>
    /\ \E n \in 1..MaxQuestions, ca \in CorrectAnswers : quizzes = <<ScoreQuiz(n, ca)>>
    /\ genTask = <<>> /\ genRes = NoResponse /\ genReq = NoGenRequest
    /\ InitAttempts /\ InitSessionIdle /\ InitChat
\* the model follows the first attempt stored
ScoreSubmit ==
    /\ attempts = <<>>
    /\ \E body \in ScoreBodies(Len(quizzes[1].questions)), dbOk \in BOOLEAN :
          /\ SubmitQuizAttempt("u1", 1, body, dbOk)
          /\ srvReq' = Request("submitQuizAttempt", "u1", 1, BodyOk(body))
    /\ UNCHANGED serverFrame
ScoreNext == ScoreSubmit
SpecScore == ScoreInit /\ [][ScoreNext]_vars

\* the attempt handlers called by both users on the quizzes of both: a
\* completed quiz of each user, a quiz still generating, a deleted quiz
MaxAttempts == 2
StoredQuiz(u, questions, status, deleted) ==
    [user_id |-> u, quiz_type |-> {MC, FB}, time_limit |-> NoNum,
     questions |-> CastQuestions(questions), status |-> status,
     generation_error |-> Null, is_deleted |-> deleted]
ServerQuizzes ==
    << StoredQuiz("u1", <<Q_mc, Q_fb>>, "completed", FALSE),
       StoredQuiz("u2", <<Q_fb>>, "completed", FALSE),
       StoredQuiz("u2", <<>>, "generating", FALSE),
       StoredQuiz("u1", <<Q_fb>>, "completed", TRUE),
       StoredQuiz("u1", <<>>, "failed", FALSE) >>
ServerBodies ==
    {SubmitBody(TRUE, <<Answer(1, Str(<<"a">>)), Answer(2, Str(<<" ">>))>>,
                1000, 6500, FALSE),
     SubmitBody(TRUE, <<Answer(1, Undef)>>, 1000, 6500, TRUE),
     SubmitBody(FALSE, <<>>, 1000, 6500, FALSE),
     SubmitBody(TRUE, <<>>, 1000, 0, FALSE)}
QuizIds    == 1..Len(quizzes)
AttemptIds == 1..MaxAttempts
ServerInit ==
    /\ InitUpload /\ uploadedFiles = <<>>
    /\ quizzes = ServerQuizzes /\ genTask = <<>> /\ genRes = NoResponse /\ genReq = NoGenRequest
    /\ InitAttempts /\ InitSessionIdle /\ InitChat
ServerGetQuiz ==
    \E u \in Users, id \in QuizIds :
       /\ GetQuiz(u, id)
       /\ srvReq' = Request("getQuiz", u, id, TRUE)
       /\ UNCHANGED <<attempts, serverFrame>>
ServerGetQuizStatus ==
    \E u \in Users, id \in QuizIds :
       /\ GetQuizStatus(u, id)
       /\ srvReq' = Request("getQuizStatus", u, id, TRUE)
       /\ UNCHANGED <<attempts, serverFrame>>
ServerSubmit ==
    /\ Len(attempts) < MaxAttempts
    /\ \E u \in Users, id \in QuizIds, body \in ServerBodies, dbOk \in BOOLEAN :
          /\ SubmitQuizAttempt(u, id, body, dbOk)
          /\ srvReq' = Request("submitQuizAttempt", u, id, BodyOk(body))
    /\ UNCHANGED serverFrame
ServerGetQuizAttempt ==
    \E u \in Users, id \in AttemptIds :
       /\ GetQuizAttempt(u, id)
       /\ srvReq' = Request("getQuizAttempt", u, id, TRUE)
       /\ UNCHANGED <<attempts, serverFrame>>
ServerDeleteAttempt ==
    \E u \in Users, id \in AttemptIds :
       /\ DeleteAttempt(u, id)
       /\ srvReq' = Request("deleteAttempt", u, id, TRUE)
       /\ UNCHANGED serverFrame
\* the handlers that list the attempts of a user
ServerGetUserQuizHistory ==
    \E u \in Users :
       /\ GetUserQuizHistory(u)
       /\ srvReq' = Request("getUserQuizHistory", u, 0, TRUE)
       /\ UNCHANGED <<attempts, serverFrame>>
ServerGetAllUserAttempts ==
    \E u \in Users :
       /\ GetAllUserAttempts(u)
       /\ srvReq' = Request("getAllUserAttempts", u, 0, TRUE)
       /\ UNCHANGED <<attempts, serverFrame>>
ServerGetQuizAttempts ==
    \E u \in Users, id \in QuizIds :
       /\ GetQuizAttempts(u, id)
       /\ srvReq' = Request("getQuizAttempts", u, id, TRUE)
       /\ UNCHANGED <<attempts, serverFrame>>
\* range 'all' or 'week' ('month' differs in the length of the window), asked
\* soon after the attempts were completed or more than a week later
StatsRanges == {"all", "week"}
StatsNows   == {7000, 6500 + WeekMs + 1}
ServerProgressStats ==
    \E u \in Users, range \in StatsRanges, now \in StatsNows :
       /\ ProgressStats(u, range, now)
       /\ srvReq' = Request("stats", u, 0, TRUE)
       /\ UNCHANGED <<attempts, serverFrame>>
ServerNext ==
    \/ ServerGetQuiz \/ ServerGetQuizStatus \/ ServerSubmit
    \/ ServerGetQuizAttempt \/ ServerDeleteAttempt
    \/ ServerGetUserQuizHistory \/ ServerGetAllUserAttempts
    \/ ServerGetQuizAttempts \/ ServerProgressStats
SpecServer == ServerInit /\ [][ServerNext]_vars


\* the quiz page of u1 on a quiz of two fill-blank questions, timed (one
\* minute) or not, opened for the first time or after an earlier session saved
\* its progress two seconds before the end, 58 seconds after it started
TimeLimits == {1, NoNum}
SessionQuiz(limit) ==
    [StoredQuiz("u1", <<Q_fb, Q_fb>>, "completed", FALSE) EXCEPT !.time_limit = limit]
EarlierSave(limit) ==
    [currentQuestionIndex |-> 1, answers |-> [NoAnswers EXCEPT ![1] = Str(<<"a", " ">>)],
     startTime |-> Epoch - 58000,
     timeRemaining |-> IF limit = NoNum THEN NoNum ELSE 2]
SessionInit(limits) ==
    /\ InitUpload /\ uploadedFiles = <<>>
    /\ \E limit \in limits :
          /\ quizzes = <<SessionQuiz(limit)>>
          /\ \/ progress = <<>> /\ saveLog = <<>>
             \/ /\ progress = SaveQuizProgress(ProgressBody(EarlierSave(limit)))
                /\ saveLog = <<[from |-> EarlierSave(limit), isCompleted |-> FALSE]>>
    /\ genTask = <<>> /\ genRes = NoResponse /\ genReq = NoGenRequest
    /\ InitAttempts /\ InitChat
    /\ sess = NewPage(Epoch) /\ timerCap = NoCapture /\ pending = <<>> /\ saveIn = 0
    /\ reqLog = <<>> /\ sinceSave = 0 /\ ticks = 0
\* one visit of the timed quiz, up to its submission
TimedInit == SessionInit(TimeLimits \ {NoNum})
SessionNext ==
    \/ FetchQuiz \/ LoadQuizProgress \/ AnswerChange \/ TimeoutFire
    \/ NextQuestion \/ PreviousQuestion \/ GridClick
    \/ SubmitClick \/ SubmitResponse \/ SessionTick
SpecSession == TimedInit /\ [][SessionNext]_vars

\* visits of either quiz, one after the other, without a submission
RestoreInit == SessionInit(TimeLimits)
RestoreNext ==
    \/ FetchQuiz \/ LoadQuizProgress \/ AnswerChange \/ TimeoutFire
    \/ NextQuestion \/ PreviousQuestion \/ GridClick \/ SessionTick \/ Reopen
SpecRestore == RestoreInit /\ [][RestoreNext]_vars

\* the same page followed for longer, without a submission
AutosaveNext ==
    \/ FetchQuiz \/ LoadQuizProgress \/ AnswerChange \/ TimeoutFire
    \/ NextQuestion \/ PreviousQuestion \/ GridClick \/ AutosaveTick
SpecAutosave == RestoreInit /\ [][AutosaveNext]_vars

\* tutor chat requests, from empty ChatSession and ChatMessage collections
ChatInit ==
    /\ InitUpload /\ uploadedFiles = <<>>
    /\ InitGen /\ InitAttempts /\ InitSessionIdle /\ InitChat
ChatNext == Chat \/ DeleteSession
SpecChat == ChatInit /\ [][ChatNext]_vars
----------------------------------------------------------------------------
(* Claims about uploadFiles (SpecUpload) *)

PdfOrder == <<"pdf-parse", "pdf2json", "ocr">>

\* C1: for a PDF the strategies run in the order pdf-parse, pdf2json, OCR; each
\* runs only after every earlier one failed and none runs after a success; the
\* chain stops only at a success or after the third failure; the record stored
\* holds the text of the strategy that succeeded, or, when all three failed,
\* extracted_text null and a processing_error that carries the pdf-parse error.
C1_FallbackChain ==
    /\ Len(upLog) <= 3
    /\ \A k \in 1..Len(upLog) : upLog[k].strategy = PdfOrder[k]
    /\ \A k \in 1..(Len(upLog) - 1) : ~upLog[k].ok
    /\ (upPc \in {"save", "stored"} /\ CurMime = PDF) =>
          (upLog # <<>> /\ (Last(upLog).ok \/ Len(upLog) = 3))
    /\ (upPc = "stored" /\ CurMime = PDF) =>
          LET rec == Last(uploadedFiles)
          IN  IF Last(upLog).ok
              THEN /\ rec.extracted_text = Last(upLog).text
                   /\ rec.is_processed
                   /\ rec.processing_error = NoError
              ELSE /\ rec.extracted_text = Null
                   /\ ~rec.is_processed
                   /\ rec.processing_error.msg # Null
                   /\ rec.processing_error.cause = upLog[1].error

\* C1 witness: a PDF was stored after all three strategies failed
C1_Witness ==
    /\ upPc = "stored" /\ CurMime = PDF
    /\ Len(upLog) = 3 /\ ~Last(upLog).ok
    /\ Last(uploadedFiles).extracted_text = Null

----------------------------------------------------------------------------
(* Claims about generateQuiz (SpecGen) *)

Settled == {"completed", "failed"}

\* C2: a stored quiz is created 'generating'; its stored status changes only from
\* 'generating', and only to 'completed' or 'failed'; generation_error is non-null
\* only on a 'failed' quiz.
C2_StatusOnce ==
    /\ [](\A i \in 1..Len(quizzes) :
             quizzes[i].generation_error # Null => quizzes[i].status = "failed")
    /\ [][\A i \in 1..Len(quizzes') :
             IF i > Len(quizzes)
             THEN quizzes'[i].status = "generating"
             ELSE quizzes'[i].status # quizzes[i].status =>
                     /\ quizzes[i].status = "generating"
                     /\ quizzes'[i].status \in Settled]_vars

\* C2 witness: the save in .then failed after the document was marked completed in
\* memory, and the .catch stored 'failed'
C2_Witness ==
    \E i \in 1..Len(quizzes) :
       /\ quizzes[i].status = "failed" /\ quizzes[i].generation_error = "save failed"
       /\ genTask[i].pc = "done"

\* C3 (as claimed): when the promise chain of a quiz has run to its end, whatever
\* the AI call and the save() calls did, the stored status is 'completed' or
\* 'failed', so the polling page stops.
C3_Claim ==
    \A i \in 1..Len(quizzes) :
       genTask[i].pc \in {"done", "unhandled"} => quizzes[i].status \in Settled

\* C3: the state the claim excludes: the chain ended, the quiz is still
\* 'generating' and the page still polls
C3_Stuck ==
    \E i \in 1..Len(quizzes) :
       /\ genTask[i].pc = "unhandled" /\ quizzes[i].status = "generating"
       /\ genTask[i].poll = "polling"

\* the stored form of a valid question
StoredQuestionValid(q, types) ==
    /\ q.question_text # <<>>
    /\ q.question_type \in types
    /\ q.correct_answer # <<>>
    /\ (q.question_type = MC => Len(q.options) >= 2)

\* C4 (as claimed): a stored 'completed' quiz has at least one question, at most
\* the requested numQuestions, each valid for the quiz types selected.
C4_Claim ==
    \A i \in 1..Len(quizzes) :
       quizzes[i].status = "completed" =>
          LET requested == ParseInt(genTask[i].settings.numQuestions)
              n == Len(quizzes[i].questions)
          IN  /\ n >= 1
              /\ ~requested.nan /\ n <= requested.val
              /\ \A k \in 1..n :
                    StoredQuestionValid(quizzes[i].questions[k], quizzes[i].quiz_type)

\* C4: what does hold of a 'completed' quiz: every stored question is valid
C4_QuestionsValid ==
    \A i \in 1..Len(quizzes) :
       quizzes[i].status = "completed" =>
          \A k \in 1..Len(quizzes[i].questions) :
             StoredQuestionValid(quizzes[i].questions[k], quizzes[i].quiz_type)

\* C4: the state the claim excludes: a 'completed' quiz without questions
C4_EmptyCompleted ==
    \E i \in 1..Len(quizzes) :
       quizzes[i].status = "completed" /\ quizzes[i].questions = <<>>

----------------------------------------------------------------------------
(* Claims about submitQuizAttempt (SpecScore) *)

\* round(100 * correct / Q) in exact arithmetic, halves upwards
ExactScore(correct, Q) == (200 * correct + Q) \div (2 * Q)
\* what the claim calls a correct answer
MatchesAfterTrim(userAnswer, correctAnswer) ==
    /\ Trim(userAnswer) # <<>>
    /\ ToLowerCase(Trim(userAnswer)) = ToLowerCase(Trim(correctAnswer))

\* C9: in every stored attempt an answer to a question of the quiz is marked
\* correct exactly when it is non-empty after trimming and equals the question's
\* correct_answer after trimming and lower-casing both; an empty or
\* whitespace-only answer is never correct; and the stored score is
\* round(100 * correct / Q), Q the number of questions of the quiz.
\* The score is computed in binary64: 23 correct of 40 gives
\* (23 / 40) * 100 = 57.49999999999999 and a stored 57, where round(57.5) = 58.
C9_Claim ==
    \A a \in 1..Len(attempts) :
       LET att  == attempts[a]
           quiz == quizzes[att.quiz_id]
           Q    == Len(quiz.questions)
       IN  /\ \A i \in 1..Len(att.answers) :
                LET ans == att.answers[i]
                IN  /\ ans.question_id \in 1..Q =>
                         (ans.is_correct <=>
                            MatchesAfterTrim(ans.user_answer,
                                             quiz.questions[ans.question_id].correct_answer))
                    /\ Trim(ans.user_answer) = <<>> => ~ans.is_correct
           /\ att.correct_answers =
                Cardinality({i \in 1..Len(att.answers) : att.answers[i].is_correct})
           /\ att.score = ExactScore(att.correct_answers, Q)

\* C9: the marking of the answers alone, which the code does implement
C9_Marking ==
    \A a \in 1..Len(attempts) :
       LET att  == attempts[a]
           quiz == quizzes[att.quiz_id]
       IN  \A i \in 1..Len(att.answers) :
              LET ans == att.answers[i]
              IN  /\ ans.question_id \in 1..Len(quiz.questions) =>
                       (ans.is_correct <=>
                          MatchesAfterTrim(ans.user_answer,
                                           quiz.questions[ans.question_id].correct_answer))
                  /\ Trim(ans.user_answer) = <<>> => ~ans.is_correct

\* C9: an attempt is stored whose score is not round(100 * correct / Q)
C9_WrongScore ==
    \E a \in 1..Len(attempts) :
       /\ attempts[a].correct_answers = 23
       /\ attempts[a].total_questions = 40
       /\ attempts[a].score = 57
       /\ ExactScore(23, 40) = 58

----------------------------------------------------------------------------
(* Claims about ownership (SpecServer) *)

QuizOps    == {"getQuiz", "getQuizStatus", "submitQuizAttempt"}
AttemptOps == {"getQuizAttempt", "deleteAttempt"}
\* request r names a quiz or an attempt that exists and belongs to another user
Foreign(r) ==
    \/ /\ r.op \in QuizOps /\ r.id \in 1..Len(quizzes)
       /\ quizzes[r.id].user_id # r.user
    \/ /\ r.op \in AttemptOps /\ r.id \in 1..Len(attempts)
       /\ attempts[r.id].user_id # r.user
Stored == <<uploadedFiles, quizzes, attempts, progress>>

----------------------------------------------------------------------------
(* Claims about the quiz-taking session (SpecSession, SpecRestore,
   SpecAutosave) *)

\* the step at which the updater of the countdown interval reads prev <= 1
TimeoutStep == timerCap.active /\ sess.timeRemaining <= 1 /\ ticks' = ticks + 1
\* the answers array of a submit request has one entry per question of the quiz,
\* in the quiz's order
OnePerQuestion(req) ==
    /\ Len(req.answers) = Len(quizzes[1].questions)
    /\ \A q \in QuestionIds : req.answers[q].question_id = q

\* C5: when the countdown of a timed session reaches 0, the page sends a submit
\* request with forcedByTimer = true whether or not every question is answered,
\* does not show the incomplete warning, and the request's answers array has
\* one entry per question in quiz order, with '' for each question that is
\* unanswered at that moment.
C5_Claim ==
    [][TimeoutStep =>
          /\ Len(reqLog') = Len(reqLog) + 1
          /\ Last(reqLog').forcedByTimer
          /\ sess'.showIncompleteWarning = sess.showIncompleteWarning
          /\ OnePerQuestion(Last(reqLog'))
          /\ \A q \in QuestionIds :
                Unanswered(sess.answers, q)
                   => Last(reqLog').answers[q].user_answer = Str(<<>>)]_vars
\* what does hold: the same, with '' for each question unanswered in the render
\* that created the countdown interval
C5_Captured ==
    [][TimeoutStep =>
          /\ Len(reqLog') = Len(reqLog) + 1
          /\ Last(reqLog').forcedByTimer
          /\ sess'.showIncompleteWarning = sess.showIncompleteWarning
          /\ OnePerQuestion(Last(reqLog'))
          /\ \A q \in QuestionIds :
                Unanswered(timerCap.answers, q)
                   => Last(reqLog').answers[q].user_answer = Str(<<>>)]_vars
\* a forced request was sent with a text for a question the page shows blank
C5_StaleAnswer ==
    /\ sess.open /\ sess.isSubmitting /\ sess.timeRemaining = 0
    /\ Len(reqLog) = 1 /\ reqLog[1].forcedByTimer
    /\ \E q \in QuestionIds :
          /\ Unanswered(sess.answers, q)
          /\ reqLog[1].answers[q].user_answer # Str(<<>>)

\* C6: handleSubmitQuiz(false) with a question that has no answer or a blank one
\* sends no request and stores no attempt; isSubmitting stays false, the
\* countdown and the autosave interval keep running, the incomplete warning is
\* set and currentQuestionIndex becomes the lowest unanswered index.
C6_Blocked ==
    [][(SubmitClick /\ ~AreAllQuestionsAnswered(sess)) =>
          /\ reqLog' = reqLog /\ attempts' = attempts
          /\ ~sess'.isSubmitting
          /\ timerCap' = timerCap /\ sess'.timeRemaining = sess.timeRemaining
          /\ (saveIn > 0 => saveIn' > 0)
          /\ sess'.showIncompleteWarning
          /\ sess'.currentQuestionIndex = Min(GetUnansweredQuestions(sess))]_vars
\* the warning is shown on a running timed session with a blank answer, at the
\* lowest unanswered question, and nothing was sent
C6_Witness ==
    /\ sess.showIncompleteWarning /\ ~sess.isSubmitting
    /\ timerCap.active /\ saveIn > 0
    /\ reqLog = <<>> /\ attempts = <<>>
    /\ \E q \in QuestionIds : sess.answers[q].t # "undef" /\ Unanswered(sess.answers, q)
    /\ sess.currentQuestionIndex = Min(GetUnansweredQuestions(sess))
    /\ sess.currentQuestionIndex > 0

\* C7: while the session is active (quiz loaded, progress loaded, not
\* submitting) a progress save is issued at least once in every window of 10
\* seconds, in a timed quiz and in an untimed one.
C7_Claim == Active(sess) => sinceSave <= AutosaveSeconds
\* a timed session has been active for more than 10 seconds, its autosave
\* interval armed, and has sent no save at all
C7_Starved ==
    /\ Active(sess) /\ quizzes[1].time_limit # NoNum
    /\ sinceSave > AutosaveSeconds /\ saveIn > 0
    /\ saveLog = <<>>

\* the step at which loadQuizProgress finishes, after a save that no
\* submission followed
LoadStep ==
    /\ ~sess.progressLoaded /\ sess'.progressLoaded
    /\ saveLog # <<>> /\ ~saveLog[1].isCompleted
\* the restored index, answers and start time are the ones the save read
RestoredPosition ==
    /\ sess'.currentQuestionIndex = saveLog[1].from.currentQuestionIndex
    /\ sess'.answers = saveLog[1].from.answers
    /\ sess'.startTime = saveLog[1].from.startTime

----------------------------------------------------------------------------
(* Claims about the quiz and attempt handlers, continued (SpecServer) *)

\* a request of getQuiz or submitQuizAttempt by the owner of a quiz that is not
\* 'completed', or is soft-deleted
NotTakeable(r) ==
    /\ r.op \in {"getQuiz", "submitQuizAttempt"}
    /\ r.id \in 1..Len(quizzes)
    /\ quizzes[r.id].user_id = r.user
    /\ (quizzes[r.id].status # "completed" \/ quizzes[r.id].is_deleted)
\* an attempt is stored only for a quiz that is 'completed' and not deleted
StoredForCompleted ==
    Len(attempts') > Len(attempts) =>
       /\ quizzes[Last(attempts').quiz_id].status = "completed"
       /\ ~quizzes[Last(attempts').quiz_id].is_deleted

----------------------------------------------------------------------------
(* Claims about generateQuiz, continued (SpecGen) *)

\* a step in which generateQuiz answers a request
GenerateStep ==
    /\ genReq'.op = "generateQuiz" /\ genRes'.op = "generateQuiz"
    /\ (genReq' # genReq \/ genRes' # genRes)
\* what the request lacks, each case taken when the ones before it are not
RejectCode(u, body) ==
    IF ~body.hasFileIds \/ body.fileIds = {} THEN 400
    ELSE IF ~body.hasQuizTypes \/ body.quizTypes = {} THEN 400
    ELSE IF \A i \in body.fileIds :
               ~(/\ i \in 1..Len(uploadedFiles)
                 /\ uploadedFiles[i].user_id = u
                 /\ ~uploadedFiles[i].is_deleted) THEN 404
    ELSE IF \A i \in FindFiles(u, body.fileIds) :
               ~Truthy(uploadedFiles[i].extracted_text) THEN 400
    ELSE 0

\* C12: generateQuiz answers 400 when fileIds is missing or empty, 400 when
\* quizTypes is missing or empty, 404 when no file id is a non-deleted file of
\* the requesting user, 400 when no found file has extracted text; whenever it
\* rejects a request it creates no Quiz record and starts no AI call.
C12_Rejects ==
    [][GenerateStep =>
          /\ RejectCode(genReq'.user, genReq'.body) # 0
                => genRes'.code = RejectCode(genReq'.user, genReq'.body)
          /\ genRes'.code # 202 => UNCHANGED <<quizzes, genTask>>]_vars
\* after a quiz was created and while its AI call is running, a request for
\* another user's file was answered 404, and one for a file without text 400
C12_Witness ==
    /\ Len(quizzes) = 1 /\ Len(genTask) = 1 /\ genTask[1].pc = "ai"
    /\ genReq.op = "generateQuiz" /\ genRes.op = "generateQuiz"
    /\ genReq.body.hasFileIds /\ genReq.body.hasQuizTypes
    /\ genReq.body.quizTypes # {}
    /\ \/ /\ genReq.body.fileIds = {3} /\ genReq.user = "u1" /\ genRes.code = 404
       \/ /\ genReq.body.fileIds = {2} /\ genReq.user = "u1" /\ genRes.code = 400
----------------------------------------------------------------------------
(* Claims about uploadFiles, continued (SpecUpload) *)

\* the files of the current request that have been stored
StoredOfRequest ==
    IF upPc = "stored" \/ (upPc = "done" /\ upRes = 200) THEN upIdx
    ELSE IF upIdx = 0 THEN 0 ELSE upIdx - 1
\* the records of the current request are the last ones of the collection, one
\* per file in request order; with 200 every file of the request has one
InRequestOrder ==
    LET n    == StoredOfRequest
        base == Len(uploadedFiles) - n
    IN  /\ base >= 0
        /\ \A k \in 1..n :
              /\ uploadedFiles[base + k].mime_type = upFiles[k]
              /\ uploadedFiles[base + k].user_id = upUser
        /\ upRes = 200 => n = Len(upFiles)
\* a file whose extraction failed goes on to be saved, and its record is
\* unprocessed and carries the error
FailureIsStored ==
    /\ (processingError' # NoError /\ processingError = NoError)
          => (upPc' = "save" /\ upRes' = 0 /\ upIdx' = upIdx)
    /\ (Len(uploadedFiles') > Len(uploadedFiles) /\ processingError # NoError)
          => /\ ~Last(uploadedFiles').is_processed
             /\ Last(uploadedFiles').processing_error = processingError
             /\ upPc' = "stored"
\* the request is answered 500 only by a failed save, which removes no record
OnlySaveAborts ==
    /\ (upRes' = 500 /\ upRes # 500) => (upPc = "save" /\ uploadedFiles' = uploadedFiles)
    /\ Len(uploadedFiles') >= Len(uploadedFiles)
    /\ SubSeq(uploadedFiles', 1, Len(uploadedFiles)) = uploadedFiles

\* C13: in uploadFiles a failed text extraction does not abort the batch: the
\* files are processed in request order, the failing file is stored with
\* is_processed = false and its processing_error, every later file is processed
\* and stored; only a failed database save answers 500, and the records saved
\* before it remain.
C13_Batch == []InRequestOrder /\ [][FailureIsStored /\ OnlySaveAborts]_vars
\* a request of two files was answered 200: the first failed to extract and is
\* stored unprocessed with its error, the second is stored processed
C13_Witness ==
    /\ upPc = "done" /\ upRes = 200 /\ Len(upFiles) = 2
    /\ Len(uploadedFiles) >= 2
    /\ ~uploadedFiles[Len(uploadedFiles) - 1].is_processed
    /\ uploadedFiles[Len(uploadedFiles) - 1].processing_error # NoError
    /\ Last(uploadedFiles).is_processed
\* a request was answered 500 at its second file while the record of its
\* first file is stored
C13_Aborted ==
    /\ upPc = "done" /\ upRes = 500 /\ upIdx = 2
    /\ uploadedFiles # <<>>
    /\ Last(uploadedFiles).mime_type = upFiles[1]
----------------------------------------------------------------------------
(* Claims about the attempt handlers, continued (SpecServer) *)

Deleted == {i \in 1..Len(attempts) : attempts[i].is_deleted}
\* the attempts the last answer carries
Returned ==
    srvRes.list \cup
    {i \in 1..Len(attempts) :
        srvRes.op = "getQuizAttempt" /\ srvRes.code = 200 /\ srvRes.ref = i}

\* C14: once deleteAttempt has succeeded for an attempt, no answer of
\* getQuizAttempt, getAllUserAttempts, getQuizAttempts, getUserQuizHistory or
\* the progress statistics carries it, and no later operation, a repeated
\* deleteAttempt included, makes it visible again.
C14_StaysDeleted ==
    /\ [](Deleted \cap Returned = {})
    /\ [][\A i \in Deleted : attempts'[i].is_deleted]_vars
\* of two attempts of one user the first is deleted, and getAllUserAttempts
\* has answered with the second alone
C14_Witness ==
    /\ Len(attempts) = 2 /\ attempts[1].user_id = attempts[2].user_id
    /\ attempts[1].is_deleted /\ ~attempts[2].is_deleted
    /\ srvRes.op = "getAllUserAttempts" /\ srvRes.user = attempts[1].user_id
    /\ srvRes.list = {2} /\ srvRes.ref = 1
----------------------------------------------------------------------------
(* Claims about the quiz-taking session, continued *)

\* the submit requests sent by the countdown reaching 0
ForcedRequests == {i \in 1..Len(reqLog) : reqLog[i].forcedByTimer}

\* C15: a session that times out sends exactly one submit request and creates
\* exactly one QuizAttempt: the interval callback and the effect branch
\* 'timeRemaining === 0 && !isSubmitting' never both submit, and the server
\* stores one attempt per request.
C15_Claim ==
    /\ Cardinality(ForcedRequests) <= 1
    /\ (sess.open /\ sess.timeRemaining = 0) => Cardinality(ForcedRequests) = 1
    /\ ForcedRequests # {} => Len(attempts) <= 1
    /\ (ForcedRequests # {} /\ ~sess.open) => Len(attempts) = 1
\* the forced request of the interval callback failed, the effect branch sent a
\* second one, and that one stored the attempt
C15_Resubmitted ==
    /\ Len(reqLog) = 2 /\ ForcedRequests = {1, 2}
    /\ Len(attempts) = 1 /\ attempts[1].forced_by_timer
    /\ srvRes.code = 201
\* what does hold: an attempt is stored for each request answered 201 and for no
\* other, so a session that times out stores at most one attempt
C15_OneAttempt ==
    /\ Len(attempts) <= 1
    /\ [][Len(attempts') = Len(attempts) + (IF srvRes' # srvRes /\ srvRes'.code = 201
                                           THEN 1 ELSE 0)]_vars

\* C16: the answers a forced submission sends are, for every question, the
\* last answer the user entered before the countdown reached 0 (trimmed, ''
\* when there is none).
C16_Claim ==
    [][TimeoutStep =>
          \A q \in QuestionIds :
             Last(reqLog').answers[q].user_answer =
                IF sess.answers[q].t = "undef" THEN Str(<<>>)
                ELSE Str(Trim(sess.answers[q].v))]_vars
\* what does hold: they are the answers of the render that created the
\* countdown interval, the one of the last tick
C16_Captured ==
    [][TimeoutStep =>
          \A q \in QuestionIds :
             Last(reqLog').answers[q].user_answer =
                IF timerCap.answers[q].t = "undef" THEN Str(<<>>)
                ELSE Str(Trim(timerCap.answers[q].v))]_vars
\* a forced request was sent with '' for a question the page holds an answer to
C16_LostAnswer ==
    /\ sess.open /\ sess.isSubmitting /\ sess.timeRemaining = 0
    /\ Len(reqLog) = 1 /\ reqLog[1].forcedByTimer
    /\ \E q \in QuestionIds :
          /\ ~Unanswered(sess.answers, q)
          /\ reqLog[1].answers[q].user_answer = Str(<<>>)

\* the step in which a setTimeout callback of handleAnswerChange sends its save
TimeoutSave == pending # <<>> /\ pending' = Tail(pending) /\ ~Head(pending).skip
\* the question the handler was called for
ChangedQuestion == Head(pending).s.currentQuestionIndex + 1

\* C17: the progress save that handleAnswerChange triggers 100 ms after a
\* change stores an answers map that holds the new answer of that question.
C17_Claim ==
    [][TimeoutSave =>
          <<ChangedQuestion, Head(pending).text>> \in progress'[1].answers]_vars
\* what does hold: it stores the answers map of the render the handler belongs
\* to, the one before the change
C17_Previous ==
    [][TimeoutSave =>
          progress'[1].answers = ToObject(Head(pending).s.answers)]_vars
\* the save after a change has been sent and the stored answers are not the
\* ones the page holds
C17_StaleSave ==
    /\ sess.open /\ sess.progressLoaded /\ pending = <<>> /\ sinceSave = 0
    /\ saveLog # <<>> /\ ~saveLog[1].isCompleted
    /\ progress[1].answers # ToObject(sess.answers)
    /\ \E q \in QuestionIds :
          /\ sess.answers[q].t # "undef"
          /\ \A p \in progress[1].answers : p[1] # q

\* the step in which the page gets the 201 of its submit request and calls
\* clearQuizProgress
ClearStep == sess.isSubmitting /\ srvRes.code = 201 /\ ~sess'.open

\* C18: after a successful submission clearQuizProgress marks the saved progress
\* of the user and quiz completed (is_completed = true), so that
\* getQuizProgress answers progress = null until a new save is made.
C18_Claim ==
    [][ClearStep =>
          /\ \A i \in 1..Len(progress') : progress'[i].is_completed
          /\ SelectSeq(progress', LAMBDA d : ~d.is_completed) = <<>>]_vars
\* what does hold: the stored progress is overwritten with index 0, no answers,
\* the instant of the clearing and no time remaining; it stays not completed
C18_Overwritten ==
    [][ClearStep =>
          /\ Len(progress') = 1 /\ ~progress'[1].is_completed
          /\ progress'[1].current_question_index = 0
          /\ progress'[1].answers = {}
          /\ progress'[1].time_remaining = NoNum
          /\ progress'[1].start_time = Now]_vars
\* the page has left after a 201 and getQuizProgress still finds a progress
\* that is not completed
C18_StillFound ==
    /\ ~sess.open /\ srvRes.code = 201 /\ attempts # <<>>
    /\ saveLog # <<>> /\ saveLog[1].isCompleted
    /\ GetQuizProgress # <<>> /\ ~GetQuizProgress[1].is_completed
----------------------------------------------------------------------------
(* Claims about the tutor chat (SpecChat) *)

\* a step that handles a chat request
ChatStep == chatReq'.op = "chat"
\* the messages of the sample that fail checkContentSafety
Failing == {m \in Messages : ~CheckContentSafety(m).isSafe}
\* what a rejection before any work leaves as it was
ChatStored == <<chatSessions, chatMessages, aiCalls>>

\* C19 as stated: a message that fails checkContentSafety is answered 400 with
\* blocked = true, and no session, message or AI call comes of it
C19_Claim ==
    [][ChatStep /\ chatReq'.message \in Failing
          => /\ chatRes'.code = 400 /\ chatRes'.blocked
             /\ UNCHANGED ChatStored]_vars
\* C19: a message that fails checkContentSafety is answered 400 and no session,
\* message or AI call comes of it; the answer carries blocked = true exactly
\* when the message is not blank (a blank one is answered "Message is required")
C19_Blocked ==
    [][ChatStep /\ chatReq'.message \in Failing
          => /\ chatRes'.code = 400
             /\ chatRes'.blocked <=> Trim(chatReq'.message) # <<>>
             /\ UNCHANGED ChatStored]_vars
\* a harmful message for a new session was blocked while sessions and messages
\* of earlier requests were stored
C19_Witness ==
    /\ chatReq.op = "chat" /\ chatReq.sessionId = NoSession
    /\ MatchesWord(ExplicitWords, Trim(ToLowerCase(chatReq.message)))
    /\ chatRes.code = 400 /\ chatRes.blocked
    /\ chatSessions # <<>> /\ chatMessages # <<>> /\ aiCalls > 0
====
